---- MODULE Spec2Model ----
(***************************************************************************)
(* Model of the modaq_upload upload / delete job engines and of the        *)
(* per-job server-sent-event fan-out.                                      *)
(*                                                                         *)
(*   app/services/delete_manager.py   DeleteManager, variables d_...      *)
(*   app/services/upload_manager.py   UploadManager                        *)
(*   app/routes/upload.py, delete.py  _sse_queues, variables h_...         *)
(*                                                                         *)
(* One delete job and one upload job are modelled, and the event stream of *)
(* one job id per engine; a request may also name an id that is not in the *)
(* job map.                                                                *)
(***************************************************************************)
EXTENDS Integers, Sequences, FiniteSets, TLC

\* ------------------------------------------------------------------ bounds
\* Largest number of files in a job.
MaxFiles == 2
\* Largest file size, in transfer chunks.
MaxFileSize == 2
\* Largest number of engine calls (analyze, upload, pipeline) on the job.
MaxRuns == 2
\* Largest number of clients of the progress streams.
MaxSubs == 2
\* Largest number of envelopes given to send_sse_event of one stream.
MaxEvents == 2
\* Number of threads that use the cache at the same time.
MaxThreads == 2
\* Largest number of cache operations (upserts, reconciles) started.
MaxOps == 3
\* The clock of the cache runs from 0 to MaxClock seconds in steps of
\* ClockStep seconds.
MaxClock == 7200
ClockStep == 3600
\* Largest number of calls of the janitor.
MaxCleanups == 2

\* --------------------------------------------------------------- constants
\* ThreadPoolExecutor(max_workers=4) of the delete phases.
DeleteWorkers == 4
\* CacheService.CACHE_TTL_SECONDS.
CACHE_TTL_SECONDS == 3600

JobId == "j1"
RequestIds == {"j1", "nonexistent-id"}
NoFiles == <<>>

\* ---------------------------------------------------------------- state
\* The delete job.
VARIABLES
    deleteJobs,       \* DeleteManager.jobs: the ids in the map
    d_files,          \* job.files: sequence of FileDeleteState records
    d_job_status,     \* job.status
    d_cancelled,      \* job.cancelled
    d_pc,             \* position of the thread running start_delete_job
    d_work,           \* files executor.map has not yet handed to a worker
    d_busy,           \* files a worker is hashing
    d_idx,            \* index of the unlink loop
    d_local,          \* d_local[f]: the local path still exists on disk
    d_was_verified,   \* history: file f has had status verified
    d_last_event      \* type of the last envelope given to _send_sse_event

dvars == <<deleteJobs, d_files, d_job_status, d_cancelled, d_pc, d_work,
           d_busy, d_idx, d_local, d_was_verified, d_last_event>>

\* The upload job.
VARIABLES
    jobs,             \* UploadManager.jobs: the ids in the map
    files,            \* job.files: sequence of FileUploadState records
    job_status,       \* job.status
    cancelled,        \* job.cancelled
    auto_upload,      \* job.auto_upload
    temp_dir,         \* job.temp_dir names a directory that exists
    pc,               \* position of the thread running the engine
    skip_duplicates,  \* the skip_duplicates argument of the running call
    work,             \* files the running loop has still to take
    futures,          \* start_upload: submitted futures not yet collected
    task,             \* task[f]: position of the upload worker of file f
    uploaded,         \* uploaded[f]: ProgressCallback.uploaded of its transfer
    last_event,       \* what the last envelope given to send_sse_event was
    runs,             \* number of engine calls made on the job so far
    trail,            \* history: what the last end of an upload phase did
    cache,            \* files whose key has a cache row with exists = true
    completed_at,     \* job.completed_at, or -1 for None
    terminal_at,      \* history: since when job.status is terminal, or -1
    janitor           \* history: the last call of cleanup_old_jobs

uvars == <<jobs, files, job_status, cancelled, auto_upload, temp_dir, pc,
           skip_duplicates, work, futures, task, uploaded, last_event, runs,
           trail, cache, completed_at, terminal_at, janitor>>

\* The event streams: "upload" is routes/upload.py, "delete" is
\* routes/delete.py; each has its own _sse_queues and _sse_lock.
VARIABLES
    h_job,            \* h_job[k]: what manager.get_job(job_id) shows of the job
    h_queues,         \* h_queues[k]: the list _sse_queues[job_id], of clients
    h_q,              \* h_q[s]: the deque of client s
    h_pc,             \* h_pc[s]: position of client s in generate()
    h_stream,         \* h_stream[s]: the stream client s is connected to
    h_out,            \* history: what client s has yielded so far
    h_count,          \* history: h_count[k] envelopes published on stream k
    h_reg_at          \* history: h_count of its stream when s registered

hvars == <<h_job, h_queues, h_q, h_pc, h_stream, h_out, h_count, h_reg_at>>

\* One transfer of upload_file_with_progress whose progress callbacks are
\* invoked by the transfer's own threads, one per chunk.
VARIABLES
    p_pc,             \* position of the worker that called the gateway
    p_size,           \* fs.file_size, the total the gateway reports
    p_uploaded,       \* ProgressCallback.uploaded
    p_thread,         \* p_thread[c]: position of the callback made for chunk c
    p_val,            \* p_val[c]: the value that callback holds
    p_bytes,          \* fs.bytes_uploaded
    p_status          \* fs.status

pvars == <<p_pc, p_size, p_uploaded, p_thread, p_val, p_bytes, p_status>>

\* One recording on its way through analysis and the filter of start_upload.
VARIABLES
    a_pc,             \* position: new, pending, dup, ready, done
    a_parsed,         \* the earliest timestamp the MCAP parser finds
    a_name,           \* the timestamp the file name carries
    a_file            \* the FileUploadState of the recording

avars == <<a_pc, a_parsed, a_name, a_file>>

\* The dedup cache (table s3_files) and the threads that use it.
VARIABLES
    c_table,          \* the rows of s3_files
    c_now,            \* datetime.now(UTC), in seconds
    c_pc,             \* c_pc[t]: position of thread t in its cache operation
    c_arg,            \* c_arg[t]: arguments and locals of that operation
    c_ops,            \* number of cache operations started so far
    c_tomb,           \* history: keys marked absent by a reconcile, not upserted as existing since
    c_prev            \* history: the last undisturbed reconcile, while nothing was written since

cvars == <<c_table, c_now, c_pc, c_arg, c_ops, c_tomb, c_prev>>

\* One call of pre_filter_files.
VARIABLES
    f_pc,                \* "idle", "misses", "loop", "updated", "done"
    f_call,              \* the arguments: file_paths, cache_only, s3_bucket
    file_statuses,       \* the file_status records, in order
    files_to_analyze,    \* the paths (positions in file_paths) to analyse
    cache_miss_indices,  \* positions in file_statuses awaiting a store check
    f_results,           \* what executor.map returned for them
    f_i,                 \* position of the write-back loop
    f_heads              \* history: positions a store check was issued for

fvars == <<f_pc, f_call, file_statuses, files_to_analyze, cache_miss_indices,
           f_results, f_i, f_heads>>

\* One file on its way through start_upload while writes of the audit log
\* and of the summaries may raise.
VARIABLES
    l_pc,       \* "idle", "returned", "collected", "summaries", "done", "crashed"
    l_store,    \* what the transfer answers when it is asked
    l_result,   \* how the future of upload_task ended
    l_file,     \* the file's FileUploadState
    l_job,      \* job.status
    l_raised,   \* history: the writes that raised
    l_unlocked  \* history: the fields assigned outside a "with job.lock"

lvars == <<l_pc, l_store, l_result, l_file, l_job, l_raised, l_unlocked>>

\* One call of generate_s3_path.
VARIABLES
    k_in,       \* the arguments: start_time, filename
    k_path      \* the path returned, as its sequence of characters and labels

kvars == <<k_in, k_path>>

vars == <<dvars, uvars, hvars, pvars, avars, cvars, fvars, lvars, kvars>>

\* What an action of one part leaves alone.
notDelete == <<uvars, hvars, pvars, avars, cvars, fvars, lvars, kvars>>
notUpload == <<dvars, hvars, pvars, avars, cvars, fvars, lvars, kvars>>
notHub == <<dvars, uvars, pvars, avars, cvars, fvars, lvars, kvars>>
notPut == <<dvars, uvars, hvars, avars, cvars, fvars, lvars, kvars>>
notAnalysis == <<dvars, uvars, hvars, pvars, cvars, fvars, lvars, kvars>>
notCache == <<dvars, uvars, hvars, pvars, avars, fvars, lvars, kvars>>

\* ------------------------------------------------------------- delete job

DeleteStatus == {"pending", "scanning", "verifying", "verified", "deleting",
                 "deleted", "mismatch", "failed", "cancelled"}

DeleteJobTerminal == {"completed", "failed", "cancelled"}

\* MD5 digests and ETags are strings; they are kept as sequences of
\* characters so that the "-N" multipart suffix can be looked for.
Md5s == {<<"a">>, <<"b">>}
Etags == {<<"a">>, <<"b">>, <<"A">>, <<"a", "-", "2">>}
Sizes == 1..MaxFileSize

FileDeleteState(size) ==
    [file_size |-> size, status |-> "pending", local_md5 |-> <<>>,
     s3_etag |-> <<>>, s3_size |-> 0, verification |-> "",
     error_message |-> ""]

DFileIds == 1..Len(d_files)

is_multipart_etag(etag) == \E i \in 1..Len(etag) : etag[i] = "-"

\* The result of get_object_metadata: a failed HEAD, or size and ETag.
HeadResults ==
    {[success |-> FALSE, size |-> 0, etag |-> <<>>]} \cup
    [success : {TRUE}, size : Sizes, etag : Etags]

DInit ==
    /\ deleteJobs = {}
    /\ d_files = NoFiles
    /\ d_job_status = "pending"
    /\ d_cancelled = FALSE
    /\ d_pc = "idle"
    /\ d_work = {}
    /\ d_busy = {}
    /\ d_idx = 0
    /\ d_local = <<>>
    /\ d_was_verified = <<>>
    /\ d_last_event = "none"

SetDStatus(fs, f, st) == [fs EXCEPT ![f].status = st]

\* The history of "has been verified" after the file list changed.
NoteVerified(fs) ==
    [f \in 1..Len(fs) |-> d_was_verified[f] \/ fs[f].status = "verified"]

\* progress_callback of routes/delete.py: the envelope type depends on the
\* job status at the time of the call.
DeleteEvent(st) ==
    IF st \in DeleteJobTerminal THEN "delete_complete"
    ELSE "delete_progress"

\* scan_folder: a new job holding the fs the cache knows as uploaded.
ScanFolder(n, size) ==
    /\ deleteJobs = {}
    /\ deleteJobs' = {JobId}
    /\ d_files' = [f \in 1..n |-> FileDeleteState(size)]
    /\ d_local' = [f \in 1..n |-> TRUE]
    /\ d_was_verified' = [f \in 1..n |-> FALSE]
    /\ d_job_status' = "pending"
    /\ UNCHANGED <<notDelete, d_cancelled, d_pc, d_work, d_busy, d_idx, d_last_event>>

\* start_delete_job up to the submission of the hash phase.
StartDeleteJob(job_id) ==
    /\ d_pc = "idle"
    /\ job_id \in deleteJobs
    /\ d_job_status' = "verifying"
    /\ d_pc' = "hash"
    /\ d_work' = DFileIds
    /\ d_busy' = {}
    /\ UNCHANGED <<notDelete, deleteJobs, d_files, d_cancelled, d_idx, d_local,
                   d_was_verified, d_last_event>>

\* compute_file_md5, first half: the cancel check and status verifying.
HashStart(f) ==
    /\ d_pc = "hash"
    /\ f \in d_work
    /\ Cardinality(d_busy) < DeleteWorkers
    /\ d_work' = d_work \ {f}
    /\ IF d_cancelled
       THEN UNCHANGED <<d_files, d_busy, d_last_event>>
       ELSE /\ d_files' = SetDStatus(d_files, f, "verifying")
            /\ d_busy' = d_busy \cup {f}
            /\ d_last_event' = DeleteEvent(d_job_status)
    /\ UNCHANGED <<notDelete, deleteJobs, d_job_status, d_cancelled, d_pc, d_idx,
                   d_local, d_was_verified>>

\* compute_file_md5, second half: the digest, or failed on an I/O error.
\* A path that is no longer on disk cannot be read.
HashEnd(f, ok, md5) ==
    /\ d_pc = "hash"
    /\ f \in d_busy
    /\ ok => d_local[f]
    /\ d_busy' = d_busy \ {f}
    /\ d_files' = IF ok
                  THEN [d_files EXCEPT ![f].local_md5 = md5]
                  ELSE [d_files EXCEPT ![f].status = "failed",
                                       ![f].error_message = "MD5 computation failed"]
    /\ UNCHANGED <<notDelete, deleteJobs, d_job_status, d_cancelled, d_pc, d_work, d_idx,
                   d_local, d_was_verified, d_last_event>>

\* The statuses _finalize_cancelled leaves behind.
FinalizeCancelledFilesMutant(fs) ==
    [f \in 1..Len(fs) |->
        IF fs[f].status \in {"pending", "verifying"}
        THEN [fs[f] EXCEPT !.status = "cancelled"]
        ELSE fs[f]]
FinalizeCancelledFiles(fs) ==
    [f \in 1..Len(fs) |->
        IF fs[f].status \in {"pending", "verifying", "verified"}
        THEN [fs[f] EXCEPT !.status = "cancelled"]
        ELSE fs[f]]

\* _finalize_cancelled.
FinalizeCancelled ==
    /\ d_files' = FinalizeCancelledFiles(d_files)
    /\ d_job_status' = "cancelled"
    /\ d_last_event' = DeleteEvent("cancelled")
    /\ d_pc' = "idle"
    /\ d_work' = {}
    /\ UNCHANGED <<deleteJobs, d_cancelled, d_busy, d_idx, d_local,
                   d_was_verified>>

\* After the hash pool has drained: the cancel check, then create_s3_client.
EndHashPhase(client_ok) ==
    /\ UNCHANGED notDelete
    /\ d_pc = "hash"
    /\ d_work = {} /\ d_busy = {}
    /\ IF d_cancelled
       THEN FinalizeCancelled
       ELSE IF client_ok
            THEN /\ d_pc' = "verify"
                 /\ d_work' = DFileIds
                 /\ UNCHANGED <<deleteJobs, d_files, d_job_status, d_cancelled,
                                d_busy, d_idx, d_local, d_was_verified,
                                d_last_event>>
            ELSE /\ d_job_status' = "failed"
                 /\ d_last_event' = DeleteEvent("failed")
                 /\ d_pc' = "idle"
                 /\ UNCHANGED <<deleteJobs, d_files, d_cancelled, d_work,
                                d_busy, d_idx, d_local, d_was_verified>>

\* The decision verify_against_s3 takes on a HEAD result.
VerifyOutcome(file, meta) ==
    IF ~meta.success
    THEN [file EXCEPT !.status = "failed",
                      !.error_message = "S3 object not found"]
    ELSE IF meta.size # file.file_size
    THEN [file EXCEPT !.s3_etag = meta.etag, !.s3_size = meta.size,
                      !.status = "mismatch",
                      !.error_message = "Size mismatch"]
    ELSE IF is_multipart_etag(meta.etag)
    THEN [file EXCEPT !.s3_etag = meta.etag, !.s3_size = meta.size,
                      !.status = "verified", !.verification = "size"]
    ELSE IF meta.etag = file.local_md5
    THEN [file EXCEPT !.s3_etag = meta.etag, !.s3_size = meta.size,
                      !.status = "verified", !.verification = "md5+size"]
    ELSE [file EXCEPT !.s3_etag = meta.etag, !.s3_size = meta.size,
                      !.status = "mismatch",
                      !.error_message = "MD5 mismatch"]

\* verify_against_s3 for one file; a raised exception marks the file failed.
VerifyAgainstS3(f, meta, raised) ==
    /\ d_pc = "verify"
    /\ f \in d_work
    /\ d_work' = d_work \ {f}
    /\ IF d_cancelled \/ d_files[f].status = "failed"
       THEN UNCHANGED <<d_files, d_was_verified, d_last_event>>
       ELSE /\ d_files' =
                 IF raised
                 THEN [d_files EXCEPT ![f].status = "failed",
                                      ![f].error_message = "S3 verification failed"]
                 ELSE [d_files EXCEPT ![f] = VerifyOutcome(d_files[f], meta)]
            /\ d_was_verified' = NoteVerified(d_files')
            /\ d_last_event' =
                 IF ~raised /\ ~meta.success THEN d_last_event
                 ELSE DeleteEvent(d_job_status)
    /\ UNCHANGED <<notDelete, deleteJobs, d_job_status, d_cancelled, d_pc, d_busy, d_idx,
                   d_local>>

\* After the verify pool has drained: the cancel check, then phase 3 begins.
EndVerifyPhase ==
    /\ UNCHANGED notDelete
    /\ d_pc = "verify"
    /\ d_work = {}
    /\ IF d_cancelled
       THEN FinalizeCancelled
       ELSE /\ d_job_status' = "deleting"
            /\ d_last_event' = DeleteEvent("deleting")
            /\ d_pc' = "unlink"
            /\ d_idx' = 1
            /\ UNCHANGED <<deleteJobs, d_files, d_cancelled, d_work, d_busy,
                           d_local, d_was_verified>>

\* The unlink loop skips every file for which this is false.
UnlinkableMutant(st) == st # "failed"
Unlinkable(st) == st = "verified"

\* One pass of the unlink loop up to os.unlink, or the end of the job.
UnlinkLoop ==
    /\ UNCHANGED notDelete
    /\ d_pc = "unlink"
    /\ IF d_idx > Len(d_files)
       THEN /\ d_job_status' = "completed"
            /\ d_last_event' = DeleteEvent("completed")
            /\ d_pc' = "idle"
            /\ UNCHANGED <<deleteJobs, d_files, d_cancelled, d_work, d_busy,
                           d_idx, d_local, d_was_verified>>
       ELSE IF d_cancelled
       THEN FinalizeCancelled
       ELSE IF ~Unlinkable(d_files[d_idx].status)
       THEN /\ d_idx' = d_idx + 1
            /\ UNCHANGED <<deleteJobs, d_files, d_job_status, d_cancelled,
                           d_pc, d_work, d_busy, d_local, d_was_verified,
                           d_last_event>>
       ELSE /\ d_files' = SetDStatus(d_files, d_idx, "deleting")
            /\ d_last_event' = DeleteEvent(d_job_status)
            /\ d_pc' = "unlinking"
            /\ UNCHANGED <<deleteJobs, d_job_status, d_cancelled, d_work,
                           d_busy, d_idx, d_local, d_was_verified>>

\* os.unlink of the file at the loop index and the status that follows.
Unlink(ok) ==
    /\ d_pc = "unlinking"
    /\ ok => d_local[d_idx]
    /\ IF ok
       THEN /\ d_local' = [d_local EXCEPT ![d_idx] = FALSE]
            /\ d_files' = SetDStatus(d_files, d_idx, "deleted")
       ELSE /\ d_local' = d_local
            /\ d_files' = [d_files EXCEPT ![d_idx].status = "failed",
                                          ![d_idx].error_message = "Delete failed"]
    /\ d_last_event' = DeleteEvent(d_job_status)
    /\ d_idx' = d_idx + 1
    /\ d_pc' = "unlink"
    /\ UNCHANGED <<notDelete, deleteJobs, d_job_status, d_cancelled, d_work, d_busy,
                   d_was_verified>>

\* DeleteManager.cancel_job.
CancelDeleteJob(job_id) ==
    /\ IF job_id \in deleteJobs
       THEN d_cancelled' = TRUE
       ELSE d_cancelled' = d_cancelled
    /\ UNCHANGED <<notDelete, deleteJobs, d_files, d_job_status, d_pc, d_work, d_busy,
                   d_idx, d_local, d_was_verified, d_last_event>>

DNext ==
    \/ \E n \in 0..MaxFiles, size \in Sizes : ScanFolder(n, size)
    \/ \E id \in RequestIds : d_job_status = "pending" /\ StartDeleteJob(id)
    \/ \E f \in DFileIds : HashStart(f)
    \/ \E f \in DFileIds, ok \in BOOLEAN, md5 \in Md5s : HashEnd(f, ok, md5)
    \/ \E ok \in BOOLEAN : EndHashPhase(ok)
    \/ \E f \in DFileIds, meta \in HeadResults, raised \in BOOLEAN :
          VerifyAgainstS3(f, meta, raised)
    \/ EndVerifyPhase
    \/ UnlinkLoop
    \/ \E ok \in BOOLEAN : Unlink(ok)
    \/ \E id \in RequestIds : CancelDeleteJob(id)

\* ------------------------------------------------------------- upload job

UploadStatus == {"pending", "analyzing", "ready", "uploading", "completed",
                 "failed", "skipped", "cancelled"}

\* The statuses get_active_jobs does not count as active.
JobTerminal == {"completed", "failed", "cancelled"}

FileUploadState(size) ==
    [file_size |-> size, status |-> "pending", bytes_uploaded |-> 0,
     error_message |-> "", is_duplicate |-> FALSE, is_valid |-> TRUE]

FileIds == 1..Len(files)

\* A worker that has been submitted and has not yet returned.
TaskLive == {"queued", "running", "pqueued", "pchecked", "prunning"}
\* A start_upload worker that has returned; its future awaits collection.
TaskReturned == {"ok", "err", "exc"}

\* No call of cleanup_old_jobs was made yet.
NoCleanup == [calls |-> 0, max_age_seconds |-> 0, now |-> 0, removed |-> 0]

\* Since when the job's status is terminal, when an action sets the status.
TerminalSince(status) ==
    IF status \notin JobTerminal THEN -1
    ELSE IF job_status \in JobTerminal THEN terminal_at ELSE c_now

UInit ==
    /\ jobs = {}
    /\ files = NoFiles
    /\ job_status = "pending"
    /\ cancelled = FALSE
    /\ auto_upload = FALSE
    /\ temp_dir = FALSE
    /\ pc = "idle"
    /\ skip_duplicates = TRUE
    /\ work = {}
    /\ futures = {}
    /\ task = <<>>
    /\ uploaded = <<>>
    /\ last_event = "none"
    /\ runs = 0
    /\ trail = <<>>
    /\ cache = {}
    /\ completed_at = -1
    /\ terminal_at = -1
    /\ janitor = NoCleanup

\* get_job.
GetJob(job_id) == job_id \in jobs

\* create_job as the routes call it: /analyze with uploaded files keeps a
\* temp directory, /bulk-analyze may ask for auto-upload and keeps none.
CreateJob(n, size, auto, tmp) ==
    /\ jobs = {}
    /\ ~(auto /\ tmp)
    /\ jobs' = {JobId}
    /\ files' = [f \in 1..n |-> FileUploadState(size)]
    /\ task' = [f \in 1..n |-> "none"]
    /\ uploaded' = [f \in 1..n |-> 0]
    /\ job_status' = "pending"
    /\ auto_upload' = auto
    /\ temp_dir' = tmp
    /\ last_event' = "none"
    /\ completed_at' = -1
    /\ terminal_at' = TerminalSince(job_status')
    /\ UNCHANGED <<notUpload, janitor, trail, cache, runs, cancelled, pc, skip_duplicates, work, futures>>

FailFile(file, msg) == [file EXCEPT !.status = "failed", !.error_message = msg]

\* UploadJob.resolve_analysis_status.
resolve_analysis_status(fs) ==
    IF \E f \in 1..Len(fs) : fs[f].status = "ready" THEN "ready" ELSE "failed"

\* What run_analysis / run_bulk_analysis publish once analyze_job_async has
\* returned, given the job they read back.
AnalysisEpilogueEvent(auto, st) ==
    IF auto /\ st = "ready" THEN "auto_upload_starting"
    ELSE IF auto THEN st
    ELSE "analysis_complete"

\* analyze_job_async up to the submission of the parse phase.
StartAnalysis(job_id, skip, client_ok) ==
    /\ pc = "idle"
    /\ GetJob(job_id)
    /\ runs' = IF pc = "idle" THEN runs + 1 ELSE runs
    /\ pc = "idle" => runs < MaxRuns
    /\ skip_duplicates' = skip
    /\ IF client_ok
       THEN /\ files' = [f \in FileIds |-> [files[f] EXCEPT !.status = "analyzing"]]
            /\ job_status' = "analyzing"
            /\ pc' = "parse"
            /\ work' = FileIds
            /\ UNCHANGED last_event
       ELSE /\ files' = [f \in FileIds |-> FailFile(files[f], "client")]
            /\ job_status' = "failed"
            /\ last_event' = AnalysisEpilogueEvent(auto_upload, "failed")
            /\ pc' = "idle"
            /\ UNCHANGED work
    /\ terminal_at' = TerminalSince(job_status')
    /\ UNCHANGED <<notUpload, completed_at, janitor, trail, cache, jobs, cancelled, auto_upload, temp_dir, futures, task,
                   uploaded>>

\* A timestamp as the engine distinguishes it: absent, before the cutoff
\* of 1980-01-01, or not before it.
Stamps == {"none", "old", "new"}

\* mcap_service.extract_start_time behind _extract_start_time_worker: the
\* parser's earliest timestamp unless it is absent or before the cutoff,
\* else the timestamp of the file name, else the message of the ValueError.
extract_start_time(parsed, name) ==
    LET from_mcap == IF parsed = "old" THEN "none" ELSE parsed
        earliest == IF from_mcap = "none" THEN name ELSE from_mcap
    IN  IF earliest = "none" THEN "error" ELSE earliest

\* What the engine writes into a file once its parse has returned: the
\* worker's error message, or the validity of the timestamp.
Parsed(file, result) ==
    IF result = "error" THEN FailFile(file, "parse")
    ELSE [file EXCEPT !.is_valid = (result = "new")]

\* analyze_job_async, phase 1: one parse future completes.  After the last
\* one, phase 2 takes the files that are not failed.
ParseResult(f, result) ==
    /\ pc = "parse"
    /\ f \in work
    /\ files' = [files EXCEPT ![f] = Parsed(files[f], result)]
    /\ last_event' = "analysis_progress"
    /\ IF work = {f}
       THEN /\ pc' = "dup"
            /\ work' = {g \in FileIds : files'[g].status # "failed"}
       ELSE /\ pc' = pc
            /\ work' = work \ {f}
    /\ UNCHANGED <<notUpload, completed_at, terminal_at, janitor, trail, cache, runs, jobs, job_status, cancelled, auto_upload, temp_dir,
                   skip_duplicates, futures, task, uploaded>>

\* CacheService.update_cache for the key of file f, with its name and size.
update_cache(c, f, exists) == IF exists THEN c \cup {f} ELSE c \ {f}

\* analyze_job_async, phase 2: one _check_duplicate future completes; the
\* check may raise (a HEAD error other than 404, a cache error).
DupResult(f, outcome) ==
    /\ pc = "dup"
    /\ f \in work
    /\ work' = work \ {f}
    /\ files' = [files EXCEPT ![f] =
                    IF outcome = "raise" THEN FailFile(files[f], "head")
                    ELSE [files[f] EXCEPT !.is_duplicate = (outcome = "dup"),
                                          !.status = "ready"]]
    /\ cache' = IF outcome = "raise" THEN cache
                ELSE update_cache(cache, f, outcome = "dup")
    /\ last_event' = "analysis_progress"
    /\ UNCHANGED <<notUpload, completed_at, terminal_at, janitor, trail, runs, jobs, job_status, cancelled, auto_upload, temp_dir, pc,
                   skip_duplicates, futures, task, uploaded>>

\* The end of analyze_job_async and what the route's thread does next.
FinishAnalysis ==
    /\ pc = "dup"
    /\ work = {}
    /\ job_status' = resolve_analysis_status(files)
    /\ last_event' = AnalysisEpilogueEvent(auto_upload, job_status')
    /\ pc' = IF auto_upload /\ job_status' = "ready" THEN "auto" ELSE "idle"
    /\ terminal_at' = TerminalSince(job_status')
    /\ UNCHANGED <<notUpload, completed_at, janitor, trail, cache, runs, jobs, files, cancelled, auto_upload, temp_dir,
                   skip_duplicates, work, futures, task, uploaded>>

\* The filter loop of start_upload applied to one file.
Filtered(file, skip) ==
    IF file.status # "ready" THEN file
    ELSE IF skip /\ file.is_duplicate
    THEN [file EXCEPT !.status = "skipped", !.bytes_uploaded = file.file_size]
    ELSE IF ~file.is_valid
    THEN [file EXCEPT !.status = "skipped", !.error_message = "Invalid timestamp (pre-1980)"]
    ELSE file

\* Where start_upload goes once the submit loop has nothing left to take.
AfterSubmit(w, fut) ==
    IF w # {} THEN "submit" ELSE IF fut # {} THEN "collect" ELSE "join"

\* start_upload up to the submit loop; pc "auto" is run_bulk_analysis
\* calling it, pc "idle" is a request to /start.
StartUpload(job_id, skip, client_ok) ==
    /\ pc \in {"idle", "auto"}
    /\ GetJob(job_id)
    /\ runs' = IF pc = "idle" THEN runs + 1 ELSE runs
    /\ pc = "idle" => runs < MaxRuns
    /\ skip_duplicates' = IF pc = "auto" THEN skip_duplicates ELSE skip
    /\ IF client_ok
       THEN /\ job_status' = "uploading"
            /\ files' = [f \in FileIds |-> Filtered(files[f], skip_duplicates')]
            /\ work' = {f \in FileIds : files'[f].status = "ready"}
            /\ futures' = {}
            /\ pc' = AfterSubmit(work', {})
       ELSE /\ job_status' = "failed"
            /\ files' = [f \in FileIds |->
                            IF files[f].status = "ready"
                            THEN FailFile(files[f], "client") ELSE files[f]]
            /\ pc' = "idle"
            /\ UNCHANGED <<work, futures>>
    /\ terminal_at' = TerminalSince(job_status')
    /\ UNCHANGED <<notUpload, completed_at, janitor, trail, cache, jobs, cancelled, auto_upload, temp_dir, task, uploaded,
                   last_event>>

Min(S) == CHOOSE x \in S : \A y \in S : x <= y

\* One pass of the submit loop: the cancel check, then executor.submit.
Submit ==
    /\ pc = "submit"
    /\ IF cancelled
       THEN /\ work' = {}
            /\ UNCHANGED <<task, futures>>
       ELSE /\ work' = work \ {Min(work)}
            /\ task' = [task EXCEPT ![Min(work)] = "queued"]
            /\ futures' = futures \cup {Min(work)}
    /\ pc' = AfterSubmit(work', futures')
    /\ UNCHANGED <<notUpload, completed_at, terminal_at, janitor, trail, cache, runs, jobs, files, job_status, cancelled, auto_upload, temp_dir,
                   skip_duplicates, uploaded, last_event>>

\* UploadManager(max_workers=4): the size of the upload pool.
max_workers == 4

Running == {f \in FileIds : task[f] \in {"running", "pchecked", "prunning"}}

\* upload_task of start_upload: a pool thread takes the task and marks the
\* file uploading.
TaskStart(f) ==
    /\ task[f] = "queued"
    /\ Cardinality(Running) < max_workers
    /\ task' = [task EXCEPT ![f] = "running"]
    /\ uploaded' = [uploaded EXCEPT ![f] = 0]
    /\ files' = [files EXCEPT ![f].status = "uploading"]
    /\ last_event' = job_status
    /\ UNCHANGED <<notUpload, completed_at, terminal_at, janitor, trail, cache, runs, jobs, job_status, cancelled, auto_upload, temp_dir, pc,
                   skip_duplicates, work, futures>>

\* ProgressCallback.__call__ of the gateway: the running total after a chunk.
ProgressUploadedMutant(sofar, amount) == sofar + amount + amount
ProgressUploaded(sofar, amount) == sofar + amount

\* byte_callback: the transfer reports one more chunk.
ByteCallback(f) ==
    /\ task[f] \in {"running", "prunning"}
    /\ uploaded[f] < files[f].file_size
    /\ uploaded' = [uploaded EXCEPT ![f] = ProgressUploaded(uploaded[f], 1)]
    /\ files' = [files EXCEPT ![f].bytes_uploaded = uploaded'[f]]
    /\ last_event' = job_status
    /\ UNCHANGED <<notUpload, completed_at, terminal_at, janitor, trail, cache, runs, jobs, job_status, cancelled, auto_upload, temp_dir, pc,
                   skip_duplicates, work, futures, task>>

PutResults == {"ok", "err", "exc"}

\* upload_file_with_progress returns: success once every chunk was sent,
\* an error result or a raised exception at any point.
PutPossible(f, result) == result = "ok" => uploaded[f] >= files[f].file_size

\* What the engine writes into a file once its PUT has returned.
Uploaded(file, result) ==
    IF result = "ok"
    THEN [file EXCEPT !.status = "completed", !.bytes_uploaded = file.file_size]
    ELSE FailFile(file, "put")

\* upload_task of start_upload returns; its future completes.
TaskEnd(f, result) ==
    /\ task[f] = "running"
    /\ PutPossible(f, result)
    /\ task' = [task EXCEPT ![f] = result]
    /\ uploaded' = [uploaded EXCEPT ![f] = 0]
    /\ UNCHANGED <<notUpload, completed_at, terminal_at, janitor, trail, cache, runs, jobs, files, job_status, cancelled, auto_upload, temp_dir,
                   pc, skip_duplicates, work, futures, last_event>>

\* One pass of the as_completed loop of start_upload.
Collect(f, cache_ok) ==
    /\ pc = "collect"
    /\ f \in futures
    /\ task[f] \in TaskReturned
    /\ IF cancelled
       THEN /\ futures' = {}
            /\ UNCHANGED <<files, task, last_event, cache>>
       ELSE /\ futures' = futures \ {f}
            /\ files' = [files EXCEPT ![f] = Uploaded(files[f], task[f])]
            /\ cache' = IF task[f] = "ok" /\ cache_ok
                        THEN update_cache(cache, f, TRUE) ELSE cache
            /\ task' = [task EXCEPT ![f] = "none"]
            /\ last_event' = job_status
    /\ pc' = IF futures' = {} THEN "join" ELSE "collect"
    /\ UNCHANGED <<notUpload, completed_at, terminal_at, janitor, trail, runs, jobs, job_status, cancelled, auto_upload, temp_dir,
                   skip_duplicates, work, uploaded>>

\* The final job status of start_upload and of the pipeline.
FinalJobStatusMutant(fs, c) ==
    IF c THEN "cancelled"
    ELSE IF \A f \in 1..Len(fs) : fs[f].status \in {"completed", "skipped"}
    THEN "completed"
    ELSE "failed"
FinalJobStatus(fs, c) ==
    IF c THEN "cancelled"
    ELSE IF \A f \in 1..Len(fs) : fs[f].status \in {"completed", "skipped"}
    THEN "completed"
    ELSE IF \E f \in 1..Len(fs) : fs[f].status = "completed"
    THEN "completed"
    ELSE "failed"

\* What the engine does once the final status is set, in this order; the
\* temp directory is removed only if the job has one.
TerminalStepsMutant(tmp) ==
    (IF tmp THEN <<"cleanup_temp_dir">> ELSE <<>>) \o
    <<"upload_job_completed", "save_job_jsonl", "save_job_csv",
      "sync_logs_to_s3", "terminal_event">>
TerminalSteps(tmp) ==
    (IF tmp THEN <<"cleanup_temp_dir">> ELSE <<>>) \o
    <<"terminal_event", "upload_job_completed", "save_job_jsonl",
      "save_job_csv", "sync_logs_to_s3">>

\* The pool has shut down: final status, cleanup_temp_dir, terminal event,
\* then the bookkeeping.
Finalize ==
    /\ pc = "join"
    /\ \A f \in FileIds : task[f] \notin TaskLive
    /\ job_status' = FinalJobStatus(files, cancelled)
    /\ temp_dir' = FALSE
    /\ last_event' = job_status'
    /\ trail' = TerminalSteps(temp_dir)
    /\ pc' = "idle"
    /\ task' = [f \in FileIds |-> "none"]
    /\ futures' = {}
    /\ completed_at' = c_now
    /\ terminal_at' = TerminalSince(job_status')
    /\ UNCHANGED <<notUpload, janitor, cache, runs, jobs, files, cancelled, auto_upload, skip_duplicates, work,
                   uploaded>>

\* analyze_and_upload_pipeline up to the submission of the parses.
StartPipeline(job_id, skip, client_ok) ==
    /\ pc = "idle"
    /\ GetJob(job_id)
    /\ runs' = IF pc = "idle" THEN runs + 1 ELSE runs
    /\ pc = "idle" => runs < MaxRuns
    /\ skip_duplicates' = skip
    /\ IF client_ok
       THEN /\ job_status' = "uploading"
            /\ files' = [f \in FileIds |-> [files[f] EXCEPT !.status = "analyzing"]]
            /\ work' = FileIds
            /\ pc' = IF FileIds = {} THEN "join" ELSE "pparse"
            /\ UNCHANGED last_event
       ELSE /\ job_status' = "failed"
            /\ files' = [f \in FileIds |-> FailFile(files[f], "client")]
            /\ last_event' = "failed"
            /\ pc' = "idle"
            /\ UNCHANGED work
    /\ terminal_at' = TerminalSince(job_status')
    /\ UNCHANGED <<notUpload, completed_at, janitor, trail, cache, jobs, cancelled, auto_upload, temp_dir, futures, task,
                   uploaded>>

\* The pipeline's decision for a file that parsed and was checked.
Decided(file, skip) ==
    IF ~file.is_valid
    THEN [file EXCEPT !.status = "skipped", !.error_message = "Invalid timestamp (pre-1980)"]
    ELSE IF skip /\ file.is_duplicate
    THEN [file EXCEPT !.status = "skipped", !.bytes_uploaded = file.file_size]
    ELSE [file EXCEPT !.status = "ready"]

\* One pass of the pipeline's as_completed loop: the cancel check, the parse
\* result, _check_duplicate (which may raise out of the loop), the decision.
PipelineStep(f, result, outcome) ==
    /\ pc = "pparse"
    /\ f \in work
    /\ IF cancelled
       THEN /\ work' = {}
            /\ UNCHANGED <<files, task, last_event, cache>>
       ELSE IF result = "error"
       THEN /\ work' = work \ {f}
            /\ files' = [files EXCEPT ![f] = Parsed(files[f], result)]
            /\ last_event' = "analysis_progress"
            /\ UNCHANGED <<task, cache>>
       ELSE IF outcome = "raise"
       THEN /\ work' = {}
            /\ files' = [files EXCEPT ![f] = Parsed(files[f], result)]
            /\ UNCHANGED <<task, last_event, cache>>
       ELSE /\ work' = work \ {f}
            /\ cache' = update_cache(cache, f, outcome = "dup")
            /\ files' = [files EXCEPT ![f] =
                            Decided([Parsed(files[f], result) EXCEPT
                                        !.is_duplicate = (outcome = "dup")],
                                    skip_duplicates)]
            /\ IF files'[f].status = "ready"
               THEN /\ task' = [task EXCEPT ![f] = "pqueued"]
                    /\ last_event' = "analysis_progress"
               ELSE /\ task' = task
                    /\ last_event' = job_status
    /\ pc' = IF work' = {} THEN "join" ELSE "pparse"
    /\ UNCHANGED <<notUpload, completed_at, terminal_at, janitor, trail, runs, jobs, job_status, cancelled, auto_upload, temp_dir,
                   skip_duplicates, futures, uploaded>>

\* upload_task of the pipeline, the cancel check on entry.
PipelineTaskCheck(f) ==
    /\ task[f] = "pqueued"
    /\ Cardinality(Running) < max_workers
    /\ IF cancelled
       THEN /\ files' = [files EXCEPT ![f].status = "cancelled"]
            /\ task' = [task EXCEPT ![f] = "none"]
       ELSE /\ files' = files
            /\ task' = [task EXCEPT ![f] = "pchecked"]
    /\ UNCHANGED <<notUpload, completed_at, terminal_at, janitor, trail, cache, runs, jobs, job_status, cancelled, auto_upload, temp_dir, pc,
                   skip_duplicates, work, futures, uploaded, last_event>>

\* upload_task of the pipeline marks the file uploading.
PipelineTaskStart(f) ==
    /\ task[f] = "pchecked"
    /\ task' = [task EXCEPT ![f] = "prunning"]
    /\ uploaded' = [uploaded EXCEPT ![f] = 0]
    /\ files' = [files EXCEPT ![f].status = "uploading"]
    /\ last_event' = job_status
    /\ UNCHANGED <<notUpload, completed_at, terminal_at, janitor, trail, cache, runs, jobs, job_status, cancelled, auto_upload, temp_dir, pc,
                   skip_duplicates, work, futures>>

\* upload_task of the pipeline handles the end of its PUT inline.
PipelineTaskEnd(f, result, cache_ok) ==
    /\ task[f] = "prunning"
    /\ PutPossible(f, result)
    /\ task' = [task EXCEPT ![f] = "none"]
    /\ files' = [files EXCEPT ![f] = Uploaded(files[f], result)]
    /\ cache' = IF result = "ok" /\ cache_ok
                THEN update_cache(cache, f, TRUE) ELSE cache
    /\ uploaded' = [uploaded EXCEPT ![f] = 0]
    /\ last_event' = job_status
    /\ UNCHANGED <<notUpload, completed_at, terminal_at, janitor, trail, runs, jobs, job_status, cancelled, auto_upload, temp_dir, pc,
                   skip_duplicates, work, futures>>

\* The files cancel_job marks.
CancelFiles(fs) ==
    [f \in 1..Len(fs) |-> IF fs[f].status \in {"pending", "ready"}
                           THEN [fs[f] EXCEPT !.status = "cancelled"] ELSE fs[f]]

\* cancel_job, with its cleanup_temp_dir.
CancelJob(job_id) ==
    /\ IF GetJob(job_id)
       THEN /\ cancelled' = TRUE
            /\ files' = CancelFiles(files)
            /\ temp_dir' = FALSE
       ELSE UNCHANGED <<cancelled, files, temp_dir>>
    /\ UNCHANGED <<notUpload, completed_at, terminal_at, janitor, trail, cache, runs, jobs, job_status, auto_upload, pc, skip_duplicates, work,
                   futures, task, uploaded, last_event>>

ParseResults == {extract_start_time(p, n) : p \in Stamps, n \in Stamps}
DupOutcomes == {"dup", "new", "raise"}

UNext ==
    \/ \E n \in 0..MaxFiles, size \in Sizes, auto \in BOOLEAN, tmp \in BOOLEAN :
          CreateJob(n, size, auto, tmp)
    \/ \E id \in RequestIds, skip \in BOOLEAN, ok \in BOOLEAN :
          StartAnalysis(id, skip, ok)
    \/ \E f \in FileIds, r \in ParseResults : ParseResult(f, r)
    \/ \E f \in FileIds, o \in DupOutcomes : DupResult(f, o)
    \/ FinishAnalysis
    \/ \E id \in RequestIds, skip \in BOOLEAN, ok \in BOOLEAN :
          StartUpload(id, skip, ok)
    \/ Submit
    \/ \E f \in FileIds : TaskStart(f)
    \/ \E f \in FileIds : ByteCallback(f)
    \/ \E f \in FileIds, r \in PutResults : TaskEnd(f, r)
    \/ \E f \in FileIds, cache_ok \in BOOLEAN : Collect(f, cache_ok)
    \/ Finalize
    \/ \E id \in RequestIds, skip \in BOOLEAN, ok \in BOOLEAN :
          StartPipeline(id, skip, ok)
    \/ \E f \in FileIds, r \in ParseResults, o \in DupOutcomes :
          PipelineStep(f, r, o)
    \/ \E f \in FileIds : PipelineTaskCheck(f)
    \/ \E f \in FileIds : PipelineTaskStart(f)
    \/ \E f \in FileIds, r \in PutResults, cache_ok \in BOOLEAN :
          PipelineTaskEnd(f, r, cache_ok)
    \/ \E id \in RequestIds : CancelJob(id)



\* ----------------------------------------------------------- event streams

Streams == {"upload", "delete"}
Subs == 1..MaxSubs

\* The payloads of an envelope: two different non-terminal ones and the one
\* whose "status" (upload) or "type" (delete) is terminal.
HubData == {"progress", "update", "terminal"}

HInit ==
    /\ h_job = [k \in Streams |-> "none"]
    /\ h_queues = [k \in Streams |-> <<>>]
    /\ h_q = [s \in Subs |-> <<>>]
    /\ h_pc = [s \in Subs |-> "off"]
    /\ h_stream = [s \in Subs |-> "upload"]
    /\ h_out = [s \in Subs |-> <<>>]
    /\ h_count = [k \in Streams |-> 0]
    /\ h_reg_at = [s \in Subs |-> 0]

\* The job of stream k as the engine drives it: created, then terminal.
HubJobStep(k) ==
    /\ h_job[k] \in {"none", "active"}
    /\ h_job' = [h_job EXCEPT ![k] = IF h_job[k] = "none" THEN "active"
                                     ELSE "terminal"]
    /\ UNCHANGED <<notHub, h_queues, h_q, h_pc, h_stream, h_out, h_count,
                   h_reg_at>>

\* cleanup_old_jobs takes a finished upload job out of the map: get_job
\* finds it no longer.  Nothing removes a delete job.
HubJobEvict ==
    /\ h_job["upload"] = "terminal"
    /\ h_job' = [h_job EXCEPT !["upload"] = "gone"]
    /\ UNCHANGED <<notHub, h_queues, h_q, h_pc, h_stream, h_out, h_count,
                   h_reg_at>>

\* deque.append by send_sse_event.
QueueAppendMutant(q, e) == <<e>> \o q
QueueAppend(q, e) == q \o <<e>>

\* send_sse_event / _send_sse_event: under the lock, append the envelope to
\* every queue in the list of the job id.  An envelope is terminal only if
\* it was built from a job whose status is terminal.
SendSseEvent(k, data) ==
    /\ h_count[k] < MaxEvents
    /\ h_job[k] \in {"active", "terminal"}
    /\ data = "terminal" => h_job[k] = "terminal"
    /\ h_count' = [h_count EXCEPT ![k] = @ + 1]
    /\ h_q' = [s \in Subs |->
                 IF \E i \in 1..Len(h_queues[k]) : h_queues[k][i] = s
                 THEN QueueAppend(h_q[s], [seq |-> h_count'[k], data |-> data])
                 ELSE h_q[s]]
    /\ UNCHANGED <<notHub, h_job, h_queues, h_pc, h_stream, h_out, h_reg_at>>

\* generate(): create the queue and register it under the lock.
Subscribe(s, k) ==
    /\ h_pc[s] = "off"
    /\ h_stream' = [h_stream EXCEPT ![s] = k]
    /\ h_queues' = [h_queues EXCEPT ![k] = Append(@, s)]
    /\ h_reg_at' = [h_reg_at EXCEPT ![s] = h_count[k]]
    /\ h_pc' = [h_pc EXCEPT ![s] = "registered"]
    /\ UNCHANGED <<notHub, h_job, h_q, h_out, h_count>>

\* The initial state a client is sent: job.to_dict() / to_progress_dict(),
\* which carries the job status.
SnapshotOf(st) ==
    [seq |-> 0, data |-> IF st = "terminal" THEN "terminal snapshot"
                         ELSE "snapshot"]

\* generate(): the initial state, if the job exists.
Snapshot(s) ==
    /\ h_pc[s] = "registered"
    /\ h_out' = [h_out EXCEPT ![s] =
                   IF h_job[h_stream[s]] \in {"active", "terminal"}
                   THEN Append(@, SnapshotOf(h_job[h_stream[s]])) ELSE @]
    /\ h_pc' = [h_pc EXCEPT ![s] = "drain"]
    /\ UNCHANGED <<notHub, h_job, h_queues, h_q, h_stream, h_count, h_reg_at>>

\* deque == deque compares the contents: the envelopes, which carry no
\* sequence number.
DequeEq(a, b) ==
    /\ Len(a) = Len(b)
    /\ \A i \in 1..Len(a) : a[i].data = b[i].data

\* list.remove(queue): drops the first element equal to the queue.
Remove(list, queue) ==
    LET hits == {i \in 1..Len(list) : DequeEq(h_q[list[i]], queue)}
    IN  IF hits = {} THEN list
        ELSE LET first == CHOOSE i \in hits : \A j \in hits : i <= j
             IN  [i \in 1..(Len(list) - 1) |->
                    IF i < first THEN list[i] ELSE list[i + 1]]

\* The finally block of generate(), run with the deque as it is in qs.
Finally(s, qs) ==
    /\ h_queues' = [h_queues EXCEPT ![h_stream[s]] = Remove(@, qs[s])]
    /\ h_pc' = [h_pc EXCEPT ![s] = "closed"]

\* generate(): popleft one envelope and yield it; a terminal one ends the
\* stream.
Drain(s) ==
    /\ h_pc[s] = "drain"
    /\ h_q[s] # <<>>
    /\ h_q' = [h_q EXCEPT ![s] = Tail(@)]
    /\ h_out' = [h_out EXCEPT ![s] = Append(@, Head(h_q[s]))]
    /\ IF Head(h_q[s]).data = "terminal"
       THEN Finally(s, h_q')
       ELSE UNCHANGED <<h_queues, h_pc>>
    /\ UNCHANGED <<notHub, h_job, h_stream, h_count, h_reg_at>>

\* generate(): the queue is empty, the inner loop ends and the client sleeps.
Sleep(s) ==
    /\ h_pc[s] = "drain"
    /\ h_q[s] = <<>>
    /\ h_pc' = [h_pc EXCEPT ![s] = "sleep"]
    /\ UNCHANGED <<notHub, h_job, h_queues,h_q, h_stream, h_out, h_count,
                   h_reg_at>>

\* generate(): after the sleep, look the job up again.  Only the delete
\* stream ends on a job that is already terminal.
WakeMutant(s) ==
    /\ h_pc[s] = "sleep"
    /\ IF h_job[h_stream[s]] = "none"
       THEN /\ h_out' = [h_out EXCEPT ![s] =
                           Append(@, [seq |-> 0, data |-> "Job not found"])]
            /\ Finally(s, h_q)
       ELSE IF h_stream[s] = "delete" /\ h_job["delete"] = "terminal"
       THEN /\ h_out' = [h_out EXCEPT ![s] =
                           Append(@, [seq |-> 0, data |-> "delete_complete"])]
            /\ Finally(s, h_q)
       ELSE /\ h_pc' = [h_pc EXCEPT ![s] = "drain"]
            /\ UNCHANGED <<h_out, h_queues>>
    /\ UNCHANGED <<notHub, h_job, h_q, h_stream, h_count, h_reg_at>>
Wake(s) ==
    /\ h_pc[s] = "sleep"
    /\ IF h_job[h_stream[s]] \in {"none", "gone"}
       THEN /\ h_out' = [h_out EXCEPT ![s] =
                           Append(@, [seq |-> 0, data |-> "Job not found"])]
            /\ Finally(s, h_q)
       ELSE IF h_stream[s] = "delete" /\ h_job["delete"] = "terminal"
       THEN /\ h_out' = [h_out EXCEPT ![s] =
                           Append(@, [seq |-> 0, data |-> "delete_complete"])]
            /\ Finally(s, h_q)
       ELSE /\ h_pc' = [h_pc EXCEPT ![s] = "drain"]
            /\ UNCHANGED <<h_out, h_queues>>
    /\ UNCHANGED <<notHub, h_job, h_q, h_stream, h_count, h_reg_at>>

\* The client goes away: the generator is closed at a yield and its finally
\* block runs.
Disconnect(s) ==
    /\ h_pc[s] \in {"drain", "sleep"}
    /\ Finally(s, h_q)
    /\ UNCHANGED <<notHub, h_job, h_q, h_stream, h_out, h_count, h_reg_at>>

HNext ==
    \/ \E k \in Streams : HubJobStep(k)
    \/ HubJobEvict
    \/ \E k \in Streams, data \in HubData : SendSseEvent(k, data)
    \/ \E s \in Subs, k \in Streams : Subscribe(s, k)
    \/ \E s \in Subs : Snapshot(s)
    \/ \E s \in Subs : Drain(s)
    \/ \E s \in Subs : Sleep(s)
    \/ \E s \in Subs : Wake(s)
    \/ \E s \in Subs : Disconnect(s)

\* ------------------------------------------------------------ one transfer

Chunks == 1..MaxFileSize

PInit ==
    /\ p_pc = "idle"
    /\ p_size = 0
    /\ p_uploaded = 0
    /\ p_thread = [c \in Chunks |-> "none"]
    /\ p_val = [c \in Chunks |-> 0]
    /\ p_bytes = 0
    /\ p_status = "ready"

\* upload_task marks the file uploading and calls upload_file_with_progress,
\* which creates the ProgressCallback; the transfer has one chunk per unit
\* of size.
PutStart(size) ==
    /\ p_pc = "idle"
    /\ p_status = "ready"
    /\ p_size \in {0, size}
    /\ p_pc' = "put"
    /\ p_size' = size
    /\ p_status' = "uploading"
    /\ p_uploaded' = 0
    /\ p_thread' = [c \in Chunks |-> IF c <= size THEN "sent" ELSE "none"]
    /\ UNCHANGED <<notPut, p_val, p_bytes>>

\* ProgressCallback.__call__, self.uploaded += bytes_amount: the read.
CallbackLoad(c) ==
    /\ p_pc = "put"
    /\ p_thread[c] = "sent"
    /\ p_thread' = [p_thread EXCEPT ![c] = "loaded"]
    /\ p_val' = [p_val EXCEPT ![c] = p_uploaded]
    /\ UNCHANGED <<notPut, p_pc, p_size, p_uploaded, p_bytes, p_status>>

\* ProgressCallback.__call__, self.uploaded += bytes_amount: the write.
CallbackStore(c) ==
    /\ p_thread[c] = "loaded"
    /\ p_thread' = [p_thread EXCEPT ![c] = "stored"]
    /\ p_uploaded' = ProgressUploaded(p_val[c], 1)
    /\ UNCHANGED <<notPut, p_pc, p_size, p_val, p_bytes, p_status>>

\* ProgressCallback.__call__ evaluates self.uploaded for user_callback.
CallbackArg(c) ==
    /\ p_thread[c] = "stored"
    /\ p_thread' = [p_thread EXCEPT ![c] = "arg"]
    /\ p_val' = [p_val EXCEPT ![c] = p_uploaded]
    /\ UNCHANGED <<notPut, p_pc, p_size, p_uploaded, p_bytes, p_status>>

\* byte_callback: under job.lock, fs.bytes_uploaded = uploaded.
ByteCallbackWrite(c) ==
    /\ p_thread[c] = "arg"
    /\ p_thread' = [p_thread EXCEPT ![c] = "done"]
    /\ p_bytes' = p_val[c]
    /\ UNCHANGED <<notPut, p_pc, p_size, p_uploaded, p_val, p_status>>

\* upload_file_with_progress returns once no callback is running: success
\* after every chunk, an error at any point; the engine handles the result.
PutReturn(ok) ==
    /\ p_pc = "put"
    /\ \A c \in Chunks : p_thread[c] \in {"none", "sent", "done"}
    /\ ok => \A c \in Chunks : p_thread[c] # "sent"
    /\ p_pc' = "idle"
    /\ p_status' = IF ok THEN "completed" ELSE "failed"
    /\ p_bytes' = IF ok THEN p_size ELSE p_bytes
    /\ p_thread' = [c \in Chunks |-> "none"]
    /\ UNCHANGED <<notPut, p_size, p_uploaded, p_val>>

\* The job is analysed again: the file is ready once more and keeps its
\* bytes_uploaded.
PutAgain ==
    /\ p_pc = "idle"
    /\ p_status \in {"completed", "failed"}
    /\ p_status' = "ready"
    /\ UNCHANGED <<notPut, p_pc, p_size, p_uploaded, p_thread, p_val, p_bytes>>

PNext ==
    \/ \E size \in Sizes : PutStart(size)
    \/ PutAgain
    \/ \E c \in Chunks : CallbackLoad(c)
    \/ \E c \in Chunks : CallbackStore(c)
    \/ \E c \in Chunks : CallbackArg(c)
    \/ \E c \in Chunks : ByteCallbackWrite(c)
    \/ \E ok \in BOOLEAN : PutReturn(ok)

\* ----------------------------------------------------------- one recording

AInit ==
    /\ a_pc = "new"
    /\ a_parsed = "none"
    /\ a_name = "none"
    /\ a_file = FileUploadState(1)

\* create_job for a recording of the given size, parser outcome and name.
Recording(size, parsed, name) ==
    /\ a_pc = "new"
    /\ a_pc' = "pending"
    /\ a_parsed' = parsed
    /\ a_name' = name
    /\ a_file' = FileUploadState(size)
    /\ UNCHANGED notAnalysis

\* analyze_job_async, phase 1 for the recording: analyzing, then the result
\* of its parse worker.
AnalyzeParse ==
    /\ a_pc = "pending"
    /\ a_file' = Parsed([a_file EXCEPT !.status = "analyzing"],
                        extract_start_time(a_parsed, a_name))
    /\ a_pc' = IF a_file'.status = "failed" THEN "done" ELSE "dup"
    /\ UNCHANGED <<notAnalysis, a_parsed, a_name>>

\* analyze_job_async, phase 2 for the recording.
AnalyzeDup(outcome) ==
    /\ a_pc = "dup"
    /\ a_file' = IF outcome = "raise" THEN FailFile(a_file, "head")
                 ELSE [a_file EXCEPT !.is_duplicate = (outcome = "dup"),
                                     !.status = "ready"]
    /\ a_pc' = IF outcome = "raise" THEN "done" ELSE "ready"
    /\ UNCHANGED <<notAnalysis, a_parsed, a_name>>

\* start_upload for the recording: the filter loop and, for a file that
\* passes it, the worker that marks it uploading.
UploadRecording(skip) ==
    /\ a_pc = "ready"
    /\ a_file' = IF Filtered(a_file, skip).status = "ready"
                 THEN [a_file EXCEPT !.status = "uploading"]
                 ELSE Filtered(a_file, skip)
    /\ a_pc' = "done"
    /\ UNCHANGED <<notAnalysis, a_parsed, a_name>>

ANext ==
    \/ \E size \in Sizes, parsed \in Stamps, name \in Stamps :
          Recording(size, parsed, name)
    \/ AnalyzeParse
    \/ \E o \in DupOutcomes : AnalyzeDup(o)
    \/ \E skip \in BOOLEAN : UploadRecording(skip)

\* ------------------------------------------------------------- dedup cache

Buckets == {"b1", "b2"}
\* Object keys as <<directory, file name>>; two directories that differ in
\* case only.
Keys == {<<"x", "n">>, <<"X", "n">>}
Prefixes == {"", "x"}
Threads == 1..MaxThreads

\* The argument record of a thread that runs no cache operation.
NoArg ==
    [bucket |-> "", s3_path |-> <<>>, exists |-> FALSE, filename |-> "",
     file_size |-> 0, now |-> 0, seen |-> -1, prefix |-> "", entries |-> {},
     deleted |-> {}, clean |-> TRUE, again |-> FALSE]

\* No reconcile has completed undisturbed by other writers, or the table
\* was written since.
NoPrev ==
    [bucket |-> "", prefix |-> "", entries |-> {}, table |-> {}, twice |-> FALSE]

CInit ==
    /\ c_table = {}
    /\ c_now = 0
    /\ c_pc = [t \in Threads |-> "idle"]
    /\ c_arg = [t \in Threads |-> NoArg]
    /\ c_ops = 0
    /\ c_tomb = {}
    /\ c_prev = NoPrev

\* The rows of s3_files for (bucket, s3_path).
RowsOf(table, bucket, s3_path) ==
    {r \in table : r.bucket = bucket /\ r.s3_path = s3_path}

\* INSERT ... ON CONFLICT(bucket, s3_path) DO UPDATE of update_cache and of
\* bulk_update_cache, for one entry.
Upsert(table, bucket, e, now) ==
    {r \in table : ~(r.bucket = bucket /\ r.s3_path = e.s3_path)} \cup
    {[bucket |-> bucket, s3_path |-> e.s3_path, exists |-> e.exists,
      filename |-> e.filename, file_size |-> e.file_size,
      last_verified |-> now]}

\* bulk_update_cache: the upsert of every entry, with one stamp; the
\* entries name each key once.
UpsertAllMutant(table, bucket, entries, now) ==
    {r \in table :
        ~(r.bucket = bucket /\ r.s3_path \in {e.s3_path : e \in entries})}
    \cup UNION {Upsert({}, bucket,
                       [e EXCEPT !.file_size =
                           IF RowsOf(table, bucket, e.s3_path) # {} THEN 2 ELSE @],
                       now) : e \in entries}
UpsertAll(table, bucket, entries, now) ==
    {r \in table :
        ~(r.bucket = bucket /\ r.s3_path \in {e.s3_path : e \in entries})}
    \cup UNION {Upsert({}, bucket, e, now) : e \in entries}

\* What the other threads' histories note when thread t writes the table:
\* their operation is no longer undisturbed, and a pending update_cache of
\* one of the paths (the paths update_cache wrote; none for a reconcile)
\* notes the latest stamp written for its key.
NoteWrite(t, bucket, paths, now) ==
    [u \in Threads |->
        IF u = t \/ c_pc[u] = "idle" THEN c_arg[u]
        ELSE [c_arg[u] EXCEPT
                !.clean = FALSE,
                !.seen = IF c_pc[u] = "upsert" /\ c_arg[u].bucket = bucket
                            /\ c_arg[u].s3_path \in paths
                         THEN (IF @ >= now THEN @ ELSE now) ELSE @]]

\* update_cache, first half: the caller's arguments and now.
UpsertNow(t, bucket, s3_path, exists, filename, file_size) ==
    /\ c_pc[t] = "idle"
    /\ t = 1 \/ c_pc[1] # "idle"
    /\ c_ops < MaxOps
    /\ c_ops' = c_ops + 1
    /\ c_pc' = [c_pc EXCEPT ![t] = "upsert"]
    /\ c_arg' = [c_arg EXCEPT ![t] =
                    [NoArg EXCEPT !.bucket = bucket, !.s3_path = s3_path,
                                  !.exists = exists, !.filename = filename,
                                  !.file_size = file_size, !.now = c_now]]
    /\ UNCHANGED <<notCache, c_table, c_now, c_tomb, c_prev>>

\* update_cache, second half: execute and commit.
UpsertWrite(t) ==
    /\ c_pc[t] = "upsert"
    /\ c_table' = Upsert(c_table, c_arg[t].bucket, c_arg[t], c_arg[t].now)
    /\ c_pc' = [c_pc EXCEPT ![t] = "idle"]
    /\ c_arg' = [NoteWrite(t, c_arg[t].bucket, {c_arg[t].s3_path}, c_arg[t].now)
                    EXCEPT ![t] = NoArg]
    /\ c_tomb' = IF c_arg[t].exists
                 THEN c_tomb \ {<<c_arg[t].bucket, c_arg[t].s3_path>>}
                 ELSE c_tomb
    /\ c_prev' = NoPrev
    /\ UNCHANGED <<notCache, c_now, c_ops>>

\* list_objects_v2 with Prefix: the keys that start with the prefix.
InPrefix(prefix, key) == prefix = "" \/ key[1] = prefix

\* The listings the store may return: any of the keys under the prefix,
\* each object of the smallest size.
Listings(prefix) ==
    SUBSET [s3_path : {k \in Keys : InPrefix(prefix, k)}, file_size : {1}]

\* The cache entry sync_and_reconcile_with_s3 builds for a listed object.
EntryOf(obj) ==
    [s3_path |-> obj.s3_path, exists |-> TRUE, filename |-> obj.s3_path[2],
     file_size |-> obj.file_size]

\* sync_and_reconcile_with_s3, step 1: the listing of the store.
ReconcileList(t, bucket, prefix, listing) ==
    /\ c_pc[t] = "idle"
    /\ t = 1
    /\ c_ops < MaxOps
    /\ c_ops' = c_ops + 1
    /\ c_pc' = [c_pc EXCEPT ![t] = "listed"]
    /\ c_arg' = [c_arg EXCEPT ![t] =
                    [NoArg EXCEPT !.bucket = bucket, !.prefix = prefix,
                                  !.entries = {EntryOf(o) : o \in listing},
                                  !.again = /\ c_prev # NoPrev
                                            /\ c_prev.bucket = bucket
                                            /\ c_prev.prefix = prefix
                                            /\ c_prev.entries =
                                                 {EntryOf(o) : o \in listing}]]
    /\ UNCHANGED <<notCache, c_table, c_now, c_tomb, c_prev>>

\* SQLite's  s3_path LIKE prefix || '%'  on these keys: LIKE ignores the
\* case of ASCII letters.
Like(prefix, key) ==
    (IF key[1] = "X" THEN "x" ELSE key[1]) = (IF prefix = "X" THEN "x" ELSE prefix)

\* Steps 2 and 3: the cached paths marked as existing, less the listed ones.
ReconcileSelect(t) ==
    /\ c_pc[t] = "listed"
    /\ c_pc' = [c_pc EXCEPT ![t] = "selected"]
    /\ c_arg' = [c_arg EXCEPT
          ![t].clean = TRUE,
          ![t].deleted =
              {r.s3_path : r \in
                  {q \in c_table :
                      /\ q.bucket = c_arg[t].bucket
                      /\ q.exists
                      /\ c_arg[t].prefix # "" => Like(c_arg[t].prefix, q.s3_path)}}
              \ {e.s3_path : e \in c_arg[t].entries}]
    /\ UNCHANGED <<notCache, c_table, c_now, c_ops, c_tomb, c_prev>>

\* Step 4, first half: bulk_update_cache of the listed entries.
ReconcileBulk(t) ==
    /\ c_pc[t] = "selected"
    /\ c_pc' = [c_pc EXCEPT ![t] = "bulk"]
    /\ c_table' = UpsertAll(c_table, c_arg[t].bucket, c_arg[t].entries, c_now)
    /\ c_arg' = IF c_arg[t].entries = {} THEN c_arg
                ELSE NoteWrite(t, c_arg[t].bucket, {}, c_now)
    /\ c_tomb' = c_tomb \ {<<c_arg[t].bucket, e.s3_path>> : e \in c_arg[t].entries}
    /\ c_prev' = IF c_arg[t].entries = {} \/ (c_arg[t].again /\ c_arg[t].clean)
                 THEN c_prev ELSE NoPrev
    /\ UNCHANGED <<notCache, c_now, c_ops>>

\* UPDATE s3_files SET file_exists = 0, last_verified = now for the paths.
TombstonedMutant(table, bucket, paths, now) ==
    {IF r.bucket = bucket /\ r.s3_path \in paths
     THEN [r EXCEPT !.last_verified = now]
     ELSE r : r \in table}
Tombstoned(table, bucket, paths, now) ==
    {IF r.bucket = bucket /\ r.s3_path \in paths
     THEN [r EXCEPT !.exists = FALSE, !.last_verified = now]
     ELSE r : r \in table}

\* Step 4, second half: the deleted paths are marked, and success returned.
ReconcileTombstone(t) ==
    /\ c_pc[t] = "bulk"
    /\ c_pc' = [c_pc EXCEPT ![t] = "idle"]
    /\ c_table' = Tombstoned(c_table, c_arg[t].bucket, c_arg[t].deleted, c_now)
    /\ c_arg' = [(IF c_arg[t].deleted = {} THEN c_arg
                  ELSE NoteWrite(t, c_arg[t].bucket, {}, c_now))
                    EXCEPT ![t] = NoArg]
    /\ c_tomb' = c_tomb \cup {<<c_arg[t].bucket, k>> : k \in c_arg[t].deleted}
    /\ c_prev' = IF ~c_arg[t].clean THEN NoPrev
                 ELSE [bucket |-> c_arg[t].bucket, prefix |-> c_arg[t].prefix,
                       entries |-> c_arg[t].entries, table |-> c_table',
                       twice |-> c_arg[t].again /\ c_prev # NoPrev]
    /\ UNCHANGED <<notCache, c_now, c_ops>>

\* An exception of the listing or of the queries that follow it: success
\* is False.
ReconcileFail(t) ==
    /\ c_pc[t] \in {"listed", "selected"}
    /\ c_pc' = [c_pc EXCEPT ![t] = "idle"]
    /\ c_arg' = [c_arg EXCEPT ![t] = NoArg]
    /\ UNCHANGED <<notCache, c_table, c_now, c_ops, c_tomb, c_prev>>

\* Time passes.
Tick ==
    /\ c_now < MaxClock
    /\ c_now' = c_now + ClockStep
    /\ UNCHANGED <<notCache, c_table, c_pc, c_arg, c_ops, c_tomb, c_prev>>

\* check_exists_cached with the default ttl: "true", "false", or "unknown"
\* for None.
check_exists_cachedMutant(bucket, s3_path) ==
    LET rows == RowsOf(c_table, bucket, s3_path) IN
    IF rows = {} THEN "unknown"
    ELSE LET row == CHOOSE r \in rows : TRUE IN
         IF c_now - row.last_verified >= CACHE_TTL_SECONDS THEN "unknown"
         ELSE IF row.exists THEN "true" ELSE "false"
check_exists_cached(bucket, s3_path) ==
    LET rows == RowsOf(c_table, bucket, s3_path) IN
    IF rows = {} THEN "unknown"
    ELSE LET row == CHOOSE r \in rows : TRUE IN
         IF c_now - row.last_verified > CACHE_TTL_SECONDS THEN "unknown"
         ELSE IF row.exists THEN "true" ELSE "false"

\* check_exists_by_filename: "true", or "unknown" for None.
check_exists_by_filenameMutant(bucket, filename, file_size) ==
    IF \E r \in c_table : /\ r.bucket = bucket /\ r.filename = filename
                          /\ r.file_size = file_size /\ r.exists
                          /\ c_now - r.last_verified <= CACHE_TTL_SECONDS
    THEN "true" ELSE "unknown"
check_exists_by_filename(bucket, filename, file_size) ==
    IF \E r \in c_table : /\ r.bucket = bucket /\ r.filename = filename
                          /\ r.file_size = file_size /\ r.exists
    THEN "true" ELSE "unknown"

CNext ==
    \/ \E t \in Threads, b \in Buckets, k \in Keys, e \in BOOLEAN, s \in Sizes :
          UpsertNow(t, b, k, e, k[2], s)
    \/ \E t \in Threads : UpsertWrite(t)
    \/ \E t \in Threads, b \in Buckets, p \in Prefixes :
          \E l \in Listings(p) : ReconcileList(t, b, p, l)
    \/ \E t \in Threads : ReconcileSelect(t)
    \/ \E t \in Threads : ReconcileBulk(t)
    \/ \E t \in Threads : ReconcileTombstone(t)
    \/ \E t \in Threads : ReconcileFail(t)
    \/ Tick

\* ---------------------------------------------------------------- janitor

\* cleanup_old_jobs(max_age_seconds) at the present time of the clock.
CleanupOldJobs(max_age_seconds) ==
    LET now == c_now
        to_remove == {job_id \in jobs :
                         /\ completed_at # -1
                         /\ now - completed_at > max_age_seconds}
    IN
    /\ janitor.calls < MaxCleanups
    /\ jobs' = jobs \ to_remove
    /\ janitor' = [calls |-> janitor.calls + 1, max_age_seconds |-> max_age_seconds,
                   now |-> now, removed |-> Cardinality(to_remove)]
    /\ UNCHANGED <<notUpload, files, job_status, cancelled, auto_upload, temp_dir,
                   pc, skip_duplicates, work, futures, task, uploaded, last_event,
                   runs, trail, cache, completed_at, terminal_at>>

\* The life of a job of at most one file while time passes and the janitor
\* is called; a job id is a fresh uuid, so an evicted id is not created
\* again, and nothing more is followed of an evicted job.
JNext ==
    \/ /\ jobs # {} \/ runs = 0
       /\ UNext
       /\ Len(files') <= 1
    \/ Tick
    \/ \E max_age_seconds \in {0, ClockStep} : CleanupOldJobs(max_age_seconds)

\* -------------------------------------------------------------- object key

KInit ==
    /\ k_in = [start_time |-> [year |-> 1, month |-> 1, day |-> 1, hour |-> 0,
                               minute |-> 0],
               filename |-> <<>>]
    /\ k_path = <<>>

\* The format specification 0<width>d: the decimal digits of n, with zeros
\* in front up to the width.
RECURSIVE Pad(_, _)
Pad(n, width) ==
    LET digit == <<"0", "1", "2", "3", "4", "5", "6", "7", "8", "9">>[(n % 10) + 1] IN
    IF n < 10 /\ width <= 1 THEN <<digit>>
    ELSE Append(Pad(n \div 10, width - 1), digit)

generate_s3_pathMutant(start_time, filename) ==
    LET minute_bucket == (start_time.minute \div 10) * 10 IN
    <<"year=">> \o Pad(start_time.year, 4) \o <<"/">>
    \o <<"month=">> \o Pad(start_time.month, 1) \o <<"/">>
    \o <<"day=">> \o Pad(start_time.day, 2) \o <<"/">>
    \o <<"hour=">> \o Pad(start_time.hour, 2) \o <<"/">>
    \o <<"minute=">> \o Pad(minute_bucket, 2) \o <<"/">>
    \o filename
generate_s3_path(start_time, filename) ==
    LET minute_bucket == (start_time.minute \div 10) * 10 IN
    <<"year=">> \o Pad(start_time.year, 4) \o <<"/">>
    \o <<"month=">> \o Pad(start_time.month, 2) \o <<"/">>
    \o <<"day=">> \o Pad(start_time.day, 2) \o <<"/">>
    \o <<"hour=">> \o Pad(start_time.hour, 2) \o <<"/">>
    \o <<"minute=">> \o Pad(minute_bucket, 2) \o <<"/">>
    \o filename

GenerateS3Path(start_time, filename) ==
    /\ k_in' = [start_time |-> start_time, filename |-> filename]
    /\ k_path' = generate_s3_path(start_time, filename)
    /\ UNCHANGED <<dvars, uvars, hvars, pvars, avars, cvars, fvars, lvars>>

\* Calls with datetimes at the ends and in the middle of each field's
\* range, and names with digits, an equals sign and a slash.
KNext ==
    \E start_time \in [year : {1, 987, 2024, 9999}, month : {1, 6, 12},
                        day : {1, 15, 31}, hour : {0, 3, 14, 23},
                        minute : {0, 7, 10, 35, 59}],
       filename \in {<<"a">>, <<"2", "=", "a">>, <<"b", "/", "a">>,
                     <<"t", "e", "s", "t", ".", "m", "c", "a", "p">>} :
          GenerateS3Path(start_time, filename)

\* -------------------------------------------------------------- audit log

notAudit == <<dvars, uvars, hvars, pvars, avars, cvars, fvars, kvars>>

LInit ==
    /\ l_pc = "idle"
    /\ l_store = "ok"
    /\ l_result = "none"
    /\ l_file = [FileUploadState(1) EXCEPT !.status = "ready"]
    /\ l_job = "ready"
    /\ l_raised = {}
    /\ l_unlocked = {}

\* start_upload up to the return of upload_task for a ready file: the task
\* marks it uploading and writes file_upload_started before it transfers.
\* start_upload assigns job.status with no lock held; the task assigns
\* fs.status inside "with job.lock".
AuditUploadTask(size, store, wrote) ==
    /\ l_pc = "idle"
    /\ l_pc' = "returned"
    /\ l_job' = "uploading"
    /\ l_file' = [FileUploadState(size) EXCEPT !.status = "uploading"]
    /\ l_store' = store
    /\ l_result' = IF wrote THEN store ELSE "exc"
    /\ l_raised' = IF wrote THEN {} ELSE {"file_upload_started"}
    /\ l_unlocked' = {"job.status"}
    /\ UNCHANGED notAudit

\* One round of the as_completed loop.  The first write is that of the try
\* block (file_upload_completed or file_upload_failed); when the future or
\* that write raises, the handler writes file_upload_failed, and when this
\* write raises the exception leaves start_upload.  The loop assigns
\* file_state.status and file_state.bytes_uploaded with no lock held.
AuditCollect(wrote, wrote_in_handler) ==
    LET handled == l_result = "exc" \/ ~wrote
        first == IF l_result = "ok" THEN "file_upload_completed"
                 ELSE "file_upload_failed"
    IN
    /\ l_pc = "returned"
    /\ l_file' = IF handled THEN FailFile(Uploaded(l_file, l_result), "exc")
                 ELSE Uploaded(l_file, l_result)
    /\ l_raised' = l_raised
                     \cup (IF l_result # "exc" /\ ~wrote THEN {first} ELSE {})
                     \cup (IF handled /\ ~wrote_in_handler
                           THEN {"file_upload_failed"} ELSE {})
    /\ l_pc' = IF handled /\ ~wrote_in_handler THEN "crashed" ELSE "collected"
    /\ l_unlocked' = l_unlocked \cup {"file.status"}
                        \cup (IF l_result = "ok" THEN {"file.bytes_uploaded"} ELSE {})
    /\ UNCHANGED <<notAudit, l_store, l_result, l_job>>

\* The final job status, and the write of upload_job_completed, which is
\* not guarded.
AuditFinalize(wrote) ==
    /\ l_pc = "collected"
    /\ l_job' = FinalJobStatus(<<l_file>>, FALSE)
    /\ l_raised' = IF wrote THEN l_raised ELSE l_raised \cup {"upload_job_completed"}
    /\ l_pc' = IF wrote THEN "summaries" ELSE "crashed"
    /\ l_unlocked' = l_unlocked \cup {"job.status"}
    /\ UNCHANGED <<notAudit, l_store, l_result, l_file>>

\* save_job_jsonl, save_job_csv and sync_logs_to_s3, each in its own try.
AuditSummaries(jsonl, csv, sync) ==
    /\ l_pc = "summaries"
    /\ l_raised' = l_raised \cup (IF jsonl THEN {} ELSE {"save_job_jsonl"})
                            \cup (IF csv THEN {} ELSE {"save_job_csv"})
                            \cup (IF sync THEN {} ELSE {"sync_logs_to_s3"})
    /\ l_pc' = "done"
    /\ UNCHANGED <<notAudit, l_store, l_result, l_file, l_job, l_unlocked>>

LNext ==
    \/ \E size \in Sizes, store \in PutResults, wrote \in BOOLEAN :
          AuditUploadTask(size, store, wrote)
    \/ \E wrote \in BOOLEAN, wrote_in_handler \in BOOLEAN :
          AuditCollect(wrote, wrote_in_handler)
    \/ \E wrote \in BOOLEAN : AuditFinalize(wrote)
    \/ \E jsonl \in BOOLEAN, csv \in BOOLEAN, sync \in BOOLEAN :
          AuditSummaries(jsonl, csv, sync)

\* ------------------------------------------------------------- pre-filter

\* The files a call may name: whether the path exists, its name ("n" holds
\* a timestamp, "m" holds none) and its size.
FilterFiles == [there : BOOLEAN, filename : {"n", "m"}, size : Sizes]

FInit ==
    /\ f_pc = "idle"
    /\ f_call = [file_paths |-> <<>>, cache_only |-> FALSE, s3_bucket |-> ""]
    /\ file_statuses = <<>>
    /\ files_to_analyze = <<>>
    /\ cache_miss_indices = <<>>
    /\ f_results = <<>>
    /\ f_i = 0
    /\ f_heads = {}

\* One round of the first loop for the path at position i: the lists after
\* it.  The key generated from the timestamp of the filename is <<"x", name>>.
ScanOneMutant(acc, i, f, bucket) ==
    LET fs == [path |-> i, filename |-> f.filename, size |-> f.size,
               already_uploaded |-> FALSE, s3_path |-> <<>>]
        s3_path == <<"x", f.filename>>
        cache_result == check_exists_cached(bucket, s3_path)
    IN
    IF ~f.there THEN acc
    ELSE IF f.filename # "n" THEN
        [acc EXCEPT !.files_to_analyze = Append(@, i),
                    !.file_statuses = Append(@, fs)]
    ELSE IF cache_result = "true" THEN
        [acc EXCEPT !.file_statuses =
            Append(@, [fs EXCEPT !.s3_path = s3_path, !.already_uploaded = TRUE])]
    ELSE IF cache_result = "false" THEN
        [acc EXCEPT !.files_to_analyze = Append(@, i),
                    !.file_statuses = Append(@, [fs EXCEPT !.s3_path = s3_path])]
    ELSE
        [acc EXCEPT !.cache_miss_indices = Append(@, Len(acc.file_statuses) + 1),
                    !.file_statuses = Append(@, [fs EXCEPT !.s3_path = s3_path])]
ScanOne(acc, i, f, bucket) ==
    LET fs == [path |-> i, filename |-> f.filename, size |-> f.size,
               already_uploaded |-> FALSE, s3_path |-> <<>>]
        s3_path == <<"x", f.filename>>
        cache_result == check_exists_cached(bucket, s3_path)
    IN
    IF ~f.there THEN acc
    ELSE IF check_exists_by_filename(bucket, f.filename, f.size) = "true" THEN
        [acc EXCEPT !.file_statuses =
            Append(@, [fs EXCEPT !.already_uploaded = TRUE])]
    ELSE IF f.filename # "n" THEN
        [acc EXCEPT !.files_to_analyze = Append(@, i),
                    !.file_statuses = Append(@, fs)]
    ELSE IF cache_result = "true" THEN
        [acc EXCEPT !.file_statuses =
            Append(@, [fs EXCEPT !.s3_path = s3_path, !.already_uploaded = TRUE])]
    ELSE IF cache_result = "false" THEN
        [acc EXCEPT !.files_to_analyze = Append(@, i),
                    !.file_statuses = Append(@, [fs EXCEPT !.s3_path = s3_path])]
    ELSE
        [acc EXCEPT !.cache_miss_indices = Append(@, Len(acc.file_statuses) + 1),
                    !.file_statuses = Append(@, [fs EXCEPT !.s3_path = s3_path])]

\* The first loop over the first n paths.
RECURSIVE Scan(_, _, _)
Scan(file_paths, n, bucket) ==
    IF n = 0
    THEN [file_statuses |-> <<>>, files_to_analyze |-> <<>>,
          cache_miss_indices |-> <<>>]
    ELSE ScanOne(Scan(file_paths, n - 1, bucket), n, file_paths[n], bucket)

\* The paths of the cache misses, appended to the paths to analyse.
FallBack == files_to_analyze \o [j \in 1..Len(cache_miss_indices) |->
                                   file_statuses[cache_miss_indices[j]].path]

\* pre_filter_files up to the store checks: the first loop, and the whole
\* call when nothing missed the cache or cache_only is set.
PreFilter(file_paths, bucket, cache_only) ==
    LET r == Scan(file_paths, Len(file_paths), bucket) IN
    /\ f_pc = "idle"
    /\ f_call' = [file_paths |-> file_paths, cache_only |-> cache_only,
                  s3_bucket |-> bucket]
    /\ file_statuses' = r.file_statuses
    /\ cache_miss_indices' = r.cache_miss_indices
    /\ IF r.cache_miss_indices = <<>> \/ cache_only
       THEN /\ f_pc' = "done"
            /\ files_to_analyze' =
                   r.files_to_analyze \o
                       [j \in 1..Len(r.cache_miss_indices) |->
                           r.file_statuses[r.cache_miss_indices[j]].path]
       ELSE /\ f_pc' = "misses"
            /\ files_to_analyze' = r.files_to_analyze
    /\ UNCHANGED <<dvars, uvars, hvars, pvars, avars, lvars, kvars, cvars, f_results, f_i, f_heads>>

\* The batch of store checks: check_file_exists for every miss.  Either all
\* of them answer, or one raises and every miss falls back to analysis.
StoreChecks(results, raised) ==
    /\ f_pc = "misses"
    /\ Len(results) = Len(cache_miss_indices)
    /\ f_heads' = {cache_miss_indices[j] : j \in 1..Len(cache_miss_indices)}
    /\ IF raised
       THEN /\ f_pc' = "done"
            /\ files_to_analyze' = FallBack
            /\ UNCHANGED <<f_results, f_i>>
       ELSE /\ f_pc' = "loop"
            /\ f_results' = results
            /\ f_i' = 1
            /\ UNCHANGED files_to_analyze
    /\ UNCHANGED <<dvars, uvars, hvars, pvars, avars, lvars, kvars, cvars, f_call,
                   file_statuses, cache_miss_indices>>

\* The write-back loop, first half: update_cache with the store's answer; if
\* it raises, every miss falls back to analysis.
WriteBack(raised) ==
    LET fs == file_statuses[cache_miss_indices[f_i]] IN
    /\ f_pc = "loop"
    /\ IF raised
       THEN /\ f_pc' = "done"
            /\ files_to_analyze' = FallBack
            /\ UNCHANGED <<c_table, c_arg, c_tomb, c_prev>>
       ELSE /\ f_pc' = "updated"
            /\ c_table' = Upsert(c_table, f_call.s3_bucket,
                                 [s3_path |-> fs.s3_path, exists |-> f_results[f_i],
                                  filename |-> fs.filename, file_size |-> fs.size],
                                 c_now)
            /\ c_arg' = NoteWrite(0, f_call.s3_bucket, {fs.s3_path}, c_now)
            /\ c_tomb' = IF f_results[f_i]
                         THEN c_tomb \ {<<f_call.s3_bucket, fs.s3_path>>}
                         ELSE c_tomb
            /\ c_prev' = NoPrev
            /\ UNCHANGED files_to_analyze
    /\ UNCHANGED <<dvars, uvars, hvars, pvars, avars, lvars, kvars, c_now, c_pc, c_ops, f_call,
                   file_statuses, cache_miss_indices, f_results, f_i, f_heads>>

\* The write-back loop, second half: the answer classifies the file.
Classify ==
    LET idx == cache_miss_indices[f_i] IN
    /\ f_pc = "updated"
    /\ IF f_results[f_i]
       THEN /\ file_statuses' =
                   [file_statuses EXCEPT ![idx].already_uploaded = TRUE]
            /\ UNCHANGED files_to_analyze
       ELSE /\ files_to_analyze' = Append(files_to_analyze, file_statuses[idx].path)
            /\ UNCHANGED file_statuses
    /\ f_i' = f_i + 1
    /\ f_pc' = IF f_i = Len(cache_miss_indices) THEN "done" ELSE "loop"
    /\ UNCHANGED <<dvars, uvars, hvars, pvars, avars, lvars, kvars, cvars, f_call,
                   cache_miss_indices, f_results, f_heads>>

\* Calls of pre_filter_files for one bucket, on a cache that earlier
\* update_cache calls of one thread have filled for it, at any age of its
\* rows.
FNext ==
    \/ /\ f_pc = "idle"
       /\ \/ \E k \in Keys, e \in BOOLEAN, s \in Sizes :
                UpsertNow(1, "b1", k, e, k[2], s)
          \/ UpsertWrite(1)
          \/ Tick
    \/ /\ c_pc[1] = "idle"
       /\ \E n \in 1..MaxFiles : \E file_paths \in [1..n -> FilterFiles] :
             \E c \in BOOLEAN : PreFilter(file_paths, "b1", c)
    \/ \E n \in 1..MaxFiles : \E results \in [1..n -> BOOLEAN] :
          \E raised \in BOOLEAN : StoreChecks(results, raised)
    \/ \E raised \in BOOLEAN : WriteBack(raised)
    \/ Classify

Init == DInit /\ UInit /\ HInit /\ PInit /\ AInit /\ CInit /\ FInit /\ LInit /\ KInit

\* One upload job: created, analysed, uploaded, cancelled; one engine thread
\* at a time.
Spec == Init /\ [][UNext]_vars

\* A delete job that is scanned, started once and possibly cancelled.
SpecDelete == Init /\ [][DNext]_vars

\* The event streams alone.
SpecHub == Init /\ [][HNext]_vars

\* One transfer with concurrent progress callbacks.
SpecPut == Init /\ [][PNext]_vars

\* One recording analysed and offered to start_upload.
SpecAnalysis == Init /\ [][ANext]_vars

\* The dedup cache used by concurrent threads while time passes.
SpecCache == Init /\ [][CNext]_vars

\* The object keys of a range of datetimes and names.
SpecKey == Init /\ [][KNext]_vars

\* One file's upload with failing audit writes.
SpecAudit == Init /\ [][LNext]_vars

\* A job, the clock and the janitor.
SpecJanitor == Init /\ [][JNext]_vars

\* The pre-filter over a filled cache.
SpecFilter == Init /\ [][FNext]_vars

\* ------------------------------------------------------------------ claims

\* A file that is deleting, deleted or gone from disk has been verified.
C1_VerifiedBefore ==
    \A f \in DFileIds :
        (d_files[f].status \in {"deleting", "deleted"} \/ ~d_local[f])
            => d_was_verified[f]

\* Status deleting is entered from verified only, and a path leaves the disk
\* only while its file is deleting.
C1_UnlinkStep ==
    \A f \in DFileIds :
        /\ (d_files'[f].status = "deleting" /\ d_files[f].status # "deleting")
               => d_files[f].status = "verified"
        /\ (d_local[f] /\ ~d_local'[f])
               => d_files[f].status = "deleting"

\* C1: in a delete job a local path is unlinked only after its file has had
\* status verified: every file that reaches deleting or deleted was verified
\* before, and no unlink starts for a file that is pending, verifying,
\* mismatch, failed or cancelled.
C1_UnlinkOnlyAfterVerified == []C1_VerifiedBefore /\ [][C1_UnlinkStep]_vars

\* A cancelled job in which one file was unlinked and another was not.
C1_Witness ==
    /\ d_job_status = "cancelled"
    /\ \E f \in DFileIds : d_files[f].status = "deleted" /\ ~d_local[f]
    /\ \E f \in DFileIds : d_files[f].status = "cancelled" /\ d_local[f]

\* The terminal file statuses of the upload state machine.
FileTerminal == {"completed", "skipped", "failed", "cancelled"}

\* The edges of the file state machine; analyzing -> skipped is the
\* pipeline's analyzing -> ready -> skipped taken in one step.
C3_Edge(a, b) ==
    \/ a = b
    \/ <<a, b>> \in {<<"pending", "analyzing">>, <<"analyzing", "ready">>,
                     <<"ready", "uploading">>, <<"uploading", "completed">>,
                     <<"ready", "skipped">>, <<"analyzing", "skipped">>}
    \/ a \notin FileTerminal /\ b \in {"failed", "cancelled"}

\* C2: an upload job never moves back out of a terminal status: once
\* job.status is completed, failed or cancelled no later operation changes
\* it to pending, analyzing, ready or uploading.
C2_TerminalJobStays ==
    [][(job_status \in JobTerminal) => (job_status' \in JobTerminal)]_vars

\* C3: every status change of a file follows an edge of the file state
\* machine; a file that is completed, skipped, failed or cancelled never
\* changes status again, also when cancel_job runs while workers are queued.
C3_FileEdges ==
    [][\A f \in FileIds : C3_Edge(files[f].status, files'[f].status)]_vars

\* C5: whenever the engine has left the job in a terminal status, the last
\* envelope it published is the terminal one carrying that status.
C5_TerminalEventPublished ==
    (pc = "idle" /\ job_status \in JobTerminal) => last_event = job_status

\* C6: the cancel that sets the cancel flag of an existing job marks every
\* file that is pending, analyzing or ready as cancelled.
C6_CancelMarksFiles ==
    [][(~cancelled /\ cancelled') =>
          \A f \in FileIds :
              files[f].status \in {"pending", "analyzing", "ready"}
                  => files'[f].status = "cancelled"]_vars

\* C7: once the cancel flag is set, no file that is not yet uploading
\* enters status uploading.
C7_NoUploadAfterCancel ==
    [][\A f \in FileIds :
          (cancelled /\ files[f].status # "uploading")
              => files'[f].status # "uploading"]_vars

\* C8: per-file errors stay per-file: when the upload phase ends without a
\* cancellation, no file is left unprocessed in status analyzing because
\* of another file's (or its own) HEAD failure.
C8_ErrorsStayPerFile ==
    [][(pc = "join" /\ pc' = "idle" /\ ~cancelled) =>
          \A f \in FileIds : files[f].status # "analyzing"]_vars

C9_Completed == {f \in FileIds : files[f].status = "completed"}
C9_Done == {f \in FileIds : files[f].status \in {"completed", "skipped"}}

\* C9: when the upload phase ends, the job status is cancelled if the cancel
\* flag is set; otherwise completed if all files are completed or skipped
\* (also for no files); otherwise completed if at least one file is
\* completed; otherwise failed.
C9_FinalStatusRule ==
    [][(pc = "join" /\ pc' = "idle") =>
          /\ cancelled => job_status' = "cancelled"
          /\ (~cancelled /\ C9_Done = FileIds) => job_status' = "completed"
          /\ (~cancelled /\ C9_Completed # {}) => job_status' = "completed"
          /\ (~cancelled /\ C9_Done # FileIds /\ C9_Completed = {})
                 => job_status' = "failed"]_vars

\* A partial success: the job ended completed with one file completed and
\* another failed.
C9_Witness ==
    /\ pc = "idle" /\ ~cancelled /\ job_status = "completed"
    /\ \E f \in FileIds : files[f].status = "completed"
    /\ \E f \in FileIds : files[f].status = "failed"

C4_Delivered(s) == SelectSeq(h_out[s], LAMBDA e : e.seq > 0)

\* C4: a client delivers the envelopes published on its stream after it
\* registered in the order of the publish calls, none overtaking another:
\* the i-th envelope it delivers is the i-th published after it registered.
\* So any two clients deliver their common envelopes in the same order, on
\* the upload and on the delete stream.
C4_FifoDelivery ==
    \A s \in Subs :
        \A i \in 1..Len(C4_Delivered(s)) :
            C4_Delivered(s)[i].seq = h_reg_at[s] + i

\* Two clients of one job have both delivered the same two envelopes.
C4_Witness ==
    \E k \in Streams :
        \A s \in Subs :
            /\ h_stream[s] = k /\ h_pc[s] # "off"
            /\ Len(C4_Delivered(s)) = 2
            /\ h_count[k] = 2

\* C11: in every reachable state a file's bytes_uploaded equals its size if
\* and only if its status is completed.
C11_BytesEqualIffCompleted ==
    \A f \in FileIds :
        (files[f].bytes_uploaded = files[f].file_size)
            <=> (files[f].status = "completed")

\* C12: within a single file bytes_uploaded is non-decreasing: no step
\* writes a smaller value into bytes_uploaded than the one it holds, also
\* when the progress callbacks of one transfer arrive from several threads.
C12_BytesNonDecreasing == [][p_bytes' >= p_bytes]_vars

\* Position of a step in the trail of the last end of an upload phase, 0 if
\* it did not happen.
C13_At(step) ==
    IF \E i \in 1..Len(trail) : trail[i] = step
    THEN CHOOSE i \in 1..Len(trail) : trail[i] = step
    ELSE 0

C13_Bookkeeping == {"upload_job_completed", "save_job_jsonl", "save_job_csv",
                    "sync_logs_to_s3"}

\* C13: when the upload phase or the pipeline ends, the temp directory (if
\* any) is deleted first, then the terminal event is published, and only
\* then come the job-completed audit entry, the JSONL summary, the CSV
\* summary and the log-ship job, in this order.
C13_TerminalFirst ==
    (job_status \in JobTerminal /\ trail # <<>>) =>
        /\ C13_At("terminal_event") > 0
        /\ C13_At("cleanup_temp_dir") < C13_At("terminal_event")
        /\ \A b \in C13_Bookkeeping : C13_At(b) > C13_At("terminal_event")
        /\ C13_At("upload_job_completed") < C13_At("save_job_jsonl")
        /\ C13_At("save_job_jsonl") < C13_At("save_job_csv")
        /\ C13_At("save_job_csv") < C13_At("sync_logs_to_s3")

\* A job that had a temp directory has ended its upload phase.
C13_Witness ==
    /\ pc = "idle" /\ job_status \in JobTerminal /\ ~temp_dir
    /\ Len(trail) = 6 /\ trail[1] = "cleanup_temp_dir"
    /\ last_event = job_status

\* Client s attached to a job that was already terminal: its snapshot
\* showed the terminal status.
C14_AttachedLate(s) ==
    h_out[s] # <<>> /\ h_out[s][1].data = "terminal snapshot"

\* C14: a client that attached to an already terminal job does not go on
\* waiting for a published event: when it wakes from its sleep its stream
\* ends, on the upload and on the delete stream.
C14_LateSubscriberEnds ==
    [][\A s \in Subs :
          (C14_AttachedLate(s) /\ h_pc[s] = "sleep" /\ h_pc'[s] # "sleep")
              => (h_pc'[s] = "closed")]_vars

\* The lowercase form of an ETag.
C15_Lower(etag) ==
    [i \in 1..Len(etag) |-> IF etag[i] = "A" THEN "a"
                            ELSE IF etag[i] = "B" THEN "b" ELSE etag[i]]

\* C15: the outcome of verifying a file against the HEAD result follows the
\* decision table: verified needs equal sizes and either a multipart ETag
\* (level size) or a single-part ETag whose lowercase form equals the local
\* MD5 (level md5+size); mismatch needs different sizes or a single-part
\* ETag whose lowercase form differs from the local MD5; a file whose hash
\* failed was never verified.
C15_DecisionTable ==
    \A f \in DFileIds :
        LET x == d_files[f] IN
        /\ x.status = "verified" =>
              /\ x.s3_size = x.file_size
              /\ IF is_multipart_etag(x.s3_etag)
                 THEN x.verification = "size"
                 ELSE /\ x.verification = "md5+size"
                      /\ C15_Lower(x.s3_etag) = x.local_md5
        /\ x.status = "mismatch" =>
              \/ x.s3_size # x.file_size
              \/ /\ ~is_multipart_etag(x.s3_etag)
                 /\ C15_Lower(x.s3_etag) # x.local_md5
        /\ x.error_message = "MD5 computation failed" => ~d_was_verified[f]

\* C16: cancelling a delete job is cooperative.  No unlink is started by a
\* check that finds the flag set; the step that makes the job cancelled
\* found the flag set, turns every pending, verifying or verified file into
\* cancelled and leaves every other file (deleted ones included) and the
\* disk as they are; after it no file is unlinked or changes status and the
\* job stays cancelled.
C16_CooperativeCancel ==
    [][/\ (d_cancelled /\ d_pc # "unlinking") => (d_pc' # "unlinking")
       /\ (d_job_status # "cancelled" /\ d_job_status' = "cancelled") =>
             /\ d_cancelled
             /\ d_local' = d_local
             /\ \A f \in DFileIds :
                   d_files'[f].status =
                      IF d_files[f].status \in {"pending", "verifying", "verified"}
                      THEN "cancelled" ELSE d_files[f].status
       /\ (d_job_status = "cancelled") =>
             /\ d_job_status' = "cancelled"
             /\ d_local' = d_local
             /\ d_files' = d_files]_vars

\* A job cancelled in its unlink phase: one file deleted, a verified one
\* turned into cancelled and still on disk.
C16_Witness ==
    /\ d_job_status = "cancelled"
    /\ \E f, g \in DFileIds :
          /\ d_files[f].status = "deleted" /\ ~d_local[f]
          /\ d_files[g].status = "cancelled" /\ d_was_verified[g] /\ d_local[g]

\* The outcome the skip rules give a ready file: a duplicate is skipped with
\* all its bytes counted, otherwise an invalid one is skipped with the
\* error, otherwise the file is handed to the upload pool.
C17_Rule(y, skip, submitted) ==
    IF skip /\ y.is_duplicate
    THEN y.status = "skipped" /\ y.bytes_uploaded = y.file_size
    ELSE IF ~y.is_valid
    THEN y.status = "skipped" /\ y.error_message = "Invalid timestamp (pre-1980)"
    ELSE y.status = "ready" /\ submitted

\* C17: start_upload and the pipeline apply the skip rules to every ready
\* file, and only a valid file that is not a skipped duplicate ever enters
\* status uploading.
C17_SkipRules ==
    [][\A f \in FileIds :
          /\ (pc \in {"idle", "auto"} /\ pc' \in {"submit", "join"}
                /\ files[f].status = "ready") =>
                C17_Rule(files'[f], skip_duplicates', f \in work')
          /\ (pc = "pparse" /\ files[f].status = "analyzing"
                /\ files'[f].status \in {"ready", "skipped"}) =>
                C17_Rule(files'[f], skip_duplicates, task'[f] = "pqueued")
          /\ (files[f].status # "uploading" /\ files'[f].status = "uploading") =>
                /\ files[f].status = "ready"
                /\ files[f].is_valid
                /\ ~(skip_duplicates /\ files[f].is_duplicate)]_vars

\* C18: a recording whose parsed earliest timestamp is before 1980 is not
\* failed by its parse: analysis leaves it invalid and, unless the duplicate
\* check raises, ready; start_upload then skips it, with the error "Invalid
\* timestamp (pre-1980)" unless it was skipped as a duplicate; all of this
\* whatever timestamp the file name carries.
C18_PreEpochNotFatal ==
    (a_parsed = "old" /\ a_pc \in {"dup", "ready", "done"}) =>
        /\ a_file.error_message # "parse"
        /\ ~a_file.is_valid
        /\ a_pc = "ready" => a_file.status = "ready"
        /\ (a_pc = "done" /\ a_file.error_message # "head") =>
              /\ a_file.status = "skipped"
              /\ \/ a_file.error_message = "Invalid timestamp (pre-1980)"
                 \/ a_file.is_duplicate

\* An engine call (analysis, upload or pipeline) that ends at once because
\* the store client could not be constructed.
C19_ClientFailed ==
    /\ pc \in {"idle", "auto"}
    /\ pc' = "idle"
    /\ runs' # runs \/ pc = "auto"
    /\ job_status' = "failed"

\* C19: when the store client cannot be constructed, every ready file is
\* failed with the construction error, every other file is left as it was,
\* the job is failed and no worker is started.
C19_ClientFailureFailsReady ==
    [][C19_ClientFailed =>
          /\ \A f \in FileIds :
                files'[f] = IF files[f].status = "ready"
                            THEN [files[f] EXCEPT !.status = "failed",
                                                  !.error_message = "client"]
                            ELSE files[f]
          /\ task' = task
          /\ uploaded' = uploaded]_vars

\* C20: at the step that makes an upload job terminal, every file whose PUT
\* succeeded (its worker returned success, or the file is completed) is
\* completed and the cache holds the row of its key with exists = true,
\* also when the job was cancelled while the PUT was in flight.
C20_UploadedIsCached ==
    [][(pc = "join" /\ pc' = "idle") =>
          \A f \in FileIds :
              (task[f] = "ok" \/ files[f].status = "completed") =>
                  (files'[f].status = "completed" /\ f \in cache')]_vars

\* Thread t returns success from a reconcile during which no other thread
\* wrote the table.
C21_Returns(t) ==
    c_pc[t] = "bulk" /\ c_pc'[t] = "idle" /\ c_arg[t].clean

\* C21: when a reconcile of a bucket with the empty prefix returns success,
\* the rows of the bucket with exists = true are exactly the listed keys:
\* every listed key has such a row and every row of another key has
\* exists = false.
C21_ReconcileExact ==
    [][\A t \in Threads :
          (C21_Returns(t) /\ c_arg[t].prefix = "") =>
              LET listed == {e.s3_path : e \in c_arg[t].entries}
                  rows == {r \in c_table' : r.bucket = c_arg[t].bucket}
              IN  /\ \A k \in listed : \E r \in rows : r.s3_path = k /\ r.exists
                  /\ \A r \in rows : r.s3_path \notin listed => ~r.exists]_vars

\* A reconcile with the empty prefix has returned and nothing was written
\* since: it found one key listed and marked another one absent.
C21_Witness ==
    /\ c_prev # NoPrev
    /\ c_prev.prefix = ""
    /\ \E r, q \in c_table :
          /\ r.bucket = c_prev.bucket /\ r.exists
          /\ q.bucket = c_prev.bucket /\ ~q.exists
          /\ <<q.bucket, q.s3_path>> \in c_tomb

\* C22: a key that a reconcile marked absent, and that was not upserted as
\* existing since, is answered false by the path lookup at any later time,
\* never true and never unknown.
C22_TombstoneStays ==
    \A bk \in c_tomb : check_exists_cached(bk[1], bk[2]) = "false"

\* The rows of a table without their timestamps.
C23_Rows(table) ==
    {[bucket |-> r.bucket, s3_path |-> r.s3_path, exists |-> r.exists,
      filename |-> r.filename, file_size |-> r.file_size] : r \in table}

\* C23: a reconcile that follows a completed reconcile of the same bucket
\* and prefix, got the same listing, and ran with no other write to the
\* table since the first one returned, leaves the rows the first one left,
\* timestamps aside.
C23_ReconcileIdempotent ==
    [][\A t \in Threads :
          (C21_Returns(t) /\ c_arg[t].again /\ c_prev # NoPrev) =>
              C23_Rows(c_table') = C23_Rows(c_prev.table)]_vars

\* A second reconcile in a row has returned, at a later time than the
\* first; it listed one key and found another one already marked absent.
C23_Witness ==
    /\ c_prev.twice
    /\ c_prev.entries # {}
    /\ \E r, q \in c_prev.table :
          /\ r.bucket = c_prev.bucket /\ r.exists /\ r.last_verified > 0
          /\ q.bucket = c_prev.bucket /\ ~q.exists

\* C24: when an update_cache commits while another thread's update_cache of
\* the same (bucket, key) committed during its run, the table holds exactly
\* one row for that (bucket, key) and its last_verified is the later of the
\* two calls' timestamps.
C24_ConcurrentUpserts ==
    [][\A t \in Threads :
          (c_pc[t] = "upsert" /\ c_pc'[t] = "idle" /\ c_arg[t].seen >= 0) =>
              LET rows == RowsOf(c_table', c_arg[t].bucket, c_arg[t].s3_path) IN
              /\ Cardinality(rows) = 1
              /\ \A r \in rows :
                    r.last_verified =
                        (IF c_arg[t].seen >= c_arg[t].now
                         THEN c_arg[t].seen ELSE c_arg[t].now)]_vars

\* C25: check_exists_cached(bucket, key) answers unknown exactly when the
\* table has no row for (bucket, key) or the row's last_verified is more than
\* CACHE_TTL_SECONDS old; right after an update_cache of (bucket, key) commits
\* it answers the flag that call wrote; and while the rows of (bucket, key)
\* stay as they are, whatever is written for other buckets and keys, the
\* answer stays the same or, as time passes, becomes unknown.
C25_PathLookup ==
    [][\A b \in Buckets, k \in Keys :
             LET rows == RowsOf(c_table', b, k) IN
             /\ check_exists_cached(b, k)' = "unknown" <=>
                    \/ rows = {}
                    \/ \E r \in rows : c_now' - r.last_verified > CACHE_TTL_SECONDS
             /\ rows = RowsOf(c_table, b, k) =>
                    check_exists_cached(b, k)' \in {check_exists_cached(b, k), "unknown"}
             /\ \A t \in Threads :
                    (/\ c_pc[t] = "upsert" /\ c_pc'[t] = "idle"
                     /\ c_arg[t].bucket = b /\ c_arg[t].s3_path = k) =>
                        check_exists_cached(b, k)' =
                            IF c_now - c_arg[t].now > CACHE_TTL_SECONDS THEN "unknown"
                            ELSE IF c_arg[t].exists THEN "true" ELSE "false"]_vars

\* The same key is cached absent in one bucket and present in the other, the
\* first row exactly CACHE_TTL_SECONDS old and still answered, and another
\* row has expired.
C25_Witness ==
    \E k \in Keys :
        /\ check_exists_cached("b1", k) = "false"
        /\ check_exists_cached("b2", k) = "true"
        /\ \E r \in RowsOf(c_table, "b1", k) :
              c_now - r.last_verified = CACHE_TTL_SECONDS
        /\ \E b \in Buckets, j \in Keys :
              RowsOf(c_table, b, j) # {} /\ check_exists_cached(b, j) = "unknown"

\* C26: check_exists_by_filename(bucket, name, size) answers true exactly
\* when some row of the bucket that is marked present has that filename and
\* that size, however old the row is, and unknown otherwise; right after an
\* update_cache(bucket, k, true, name, size) commits it answers true.
C26_FilenameLookup ==
    [][\A b \in Buckets, n \in {"n", "m"}, s \in Sizes :
          /\ check_exists_by_filename(b, n, s)' \in {"true", "unknown"}
          /\ check_exists_by_filename(b, n, s)' = "true" <=>
                \E k \in Keys : \E r \in RowsOf(c_table', b, k) :
                    r.exists /\ r.filename = n /\ r.file_size = s
          /\ \A t \in Threads :
                (/\ c_pc[t] = "upsert" /\ c_pc'[t] = "idle" /\ c_arg[t].exists
                 /\ c_arg[t].bucket = b /\ c_arg[t].filename = n
                 /\ c_arg[t].file_size = s) =>
                    check_exists_by_filename(b, n, s)' = "true"]_vars

\* A row marked present has outlived the TTL, so that the path lookup no
\* longer answers, and the filename lookup still answers true for its name
\* and size, and unknown for the other size and for the other bucket.
C26_Witness ==
    \E r \in c_table :
        /\ r.exists /\ c_now - r.last_verified > CACHE_TTL_SECONDS
        /\ check_exists_cached(r.bucket, r.s3_path) = "unknown"
        /\ check_exists_by_filename(r.bucket, r.filename, r.file_size) = "true"
        /\ check_exists_by_filename(r.bucket, r.filename, 3 - r.file_size) = "unknown"
        /\ \E b \in Buckets :
              check_exists_by_filename(b, r.filename, r.file_size) = "unknown"

\* C27: the first loop of pre_filter_files classifies every existing path by
\* the cache as it stands: a filename+size hit marks it already uploaded,
\* with no store check; otherwise, for a name that holds a timestamp, the
\* path lookup decides: true excludes it, false sends it to analysis, unknown
\* makes it a miss.  Store checks are issued for the misses only, for all of
\* them, and never when cache_only is set; and when a store answer classifies
\* a file, the cache already holds that answer for its key.
C27_PreFilter ==
    [][LET bucket == f_call'.s3_bucket
           Analyzed(fs) ==
               \E i \in 1..Len(files_to_analyze') : files_to_analyze'[i] = fs.path
           Misses ==
               {cache_miss_indices'[i] : i \in 1..Len(cache_miss_indices')}
       IN
       /\ (f_pc = "idle" /\ f_pc' # "idle") =>
             \A j \in 1..Len(file_statuses') :
                LET fs == file_statuses'[j] IN
                IF check_exists_by_filename(bucket, fs.filename, fs.size) = "true"
                THEN fs.already_uploaded /\ ~Analyzed(fs) /\ j \notin Misses
                ELSE fs.filename = "n" =>
                       LET cache_result ==
                               check_exists_cached(bucket, <<"x", fs.filename>>)
                       IN
                       /\ cache_result = "true" =>
                             fs.already_uploaded /\ ~Analyzed(fs) /\ j \notin Misses
                       /\ cache_result = "false" =>
                             ~fs.already_uploaded /\ Analyzed(fs) /\ j \notin Misses
                       /\ cache_result = "unknown" =>
                             /\ ~fs.already_uploaded /\ j \in Misses
                             /\ Analyzed(fs) <=> f_call'.cache_only
                             /\ ~f_call'.cache_only => f_pc' = "misses"
       /\ f_heads' \subseteq Misses
       /\ f_call'.cache_only => f_heads' = {}
       /\ (f_pc = "misses" /\ f_pc' # "misses") => f_heads' = Misses
       /\ (f_pc = "updated" /\ f_pc' # "updated") =>
             LET idx == cache_miss_indices[f_i]
                 fs == file_statuses'[idx]
             IN
             /\ idx \in f_heads
             /\ \E r \in RowsOf(c_table, bucket, fs.s3_path) :
                   /\ r.exists = f_results[f_i]
                   /\ r.filename = fs.filename /\ r.file_size = fs.size
             /\ fs.already_uploaded = f_results[f_i]
             /\ Analyzed(fs) = ~f_results[f_i]]_vars

\* A finished call in which one file was excluded by its name and size, with
\* no key and no store check, and another was excluded by the store's
\* answer, which the cache now holds.
C27_Witness ==
    /\ f_pc = "done" /\ ~f_call.cache_only
    /\ \E j \in 1..Len(file_statuses) :
          /\ file_statuses[j].already_uploaded
          /\ file_statuses[j].s3_path = <<>>
          /\ j \notin f_heads
    /\ \E j \in f_heads :
          /\ file_statuses[j].already_uploaded
          /\ check_exists_cached(f_call.s3_bucket, file_statuses[j].s3_path) = "true"

\* C28: a call of cleanup_old_jobs(max_age_seconds) removes a job exactly
\* when its status is terminal and has been for more than max_age_seconds,
\* and returns the number of jobs it removed.
C28_JanitorExact ==
    [][janitor'.calls # janitor.calls =>
          /\ \A job_id \in jobs :
                job_id \notin jobs' <=>
                    /\ job_status \in JobTerminal
                    /\ c_now - terminal_at > janitor'.max_age_seconds
          /\ janitor'.removed = Cardinality(jobs \ jobs')]_vars

\* C29: when start_upload has ended for a file, whichever writes of the audit
\* log or of the summaries raised, the file and the job have the statuses
\* they have when no write raises: those that the store's answer to the
\* transfer alone decides; and start_upload has not ended by an exception.
C29_AuditFailureHarmless ==
    l_pc \in {"done", "crashed"} =>
        LET file == Uploaded([FileUploadState(l_file.file_size)
                                 EXCEPT !.status = "uploading"], l_store)
        IN
        /\ l_pc = "done"
        /\ l_file.status = file.status
        /\ l_job = FinalJobStatus(<<file>>, FALSE)

\* The path cut at its first five slashes: five labelled fields and the name.
RECURSIVE C30_Split(_, _)
C30_Split(path, n) ==
    LET i == CHOOSE j \in 1..Len(path) :
                 path[j] = "/" /\ \A h \in 1..(j - 1) : path[h] # "/"
    IN
    IF n = 0 THEN <<path>>
    ELSE <<SubSeq(path, 1, i - 1)>> \o C30_Split(SubSeq(path, i + 1, Len(path)), n - 1)

\* The number a sequence of decimal digits denotes.
RECURSIVE C30_Number(_)
C30_Number(digits) ==
    IF digits = <<>> THEN 0
    ELSE 10 * C30_Number(SubSeq(digits, 1, Len(digits) - 1))
         + (CHOOSE d \in 0..9 : Pad(d, 1) = <<digits[Len(digits)]>>)

C31_NotFoundEnds ==
    [][\A s \in Subs :
          LET NotFound == [seq |-> 0, data |-> "Job not found"] IN
          /\ (/\ h_pc[s] = "sleep" /\ h_pc'[s] # "sleep"
              /\ h_job[h_stream[s]] \in {"none", "gone"}) =>
                 /\ h_pc'[s] = "closed"
                 /\ h_out'[s] \in {h_out[s], Append(h_out[s], NotFound)}
          /\ \A i \in 1..Len(h_out'[s]) :
                h_out'[s][i] = NotFound => (i = Len(h_out'[s]) /\ h_pc'[s] = "closed")
          /\ h_pc[s] = "off" => \A k \in Streams : ENABLED Subscribe(s, k)]_vars

\* One stream was opened for an id with no job and ended with the record as
\* its only one; another outlived its job, which was evicted, and ended with
\* the record after its snapshot.
C31_Witness ==
    \E s, r \in Subs :
        /\ h_pc[s] = "closed" /\ h_stream[s] = "delete" /\ h_job["delete"] = "none"
        /\ h_out[s] = <<[seq |-> 0, data |-> "Job not found"]>>
        /\ h_pc[r] = "closed" /\ h_stream[r] = "upload" /\ h_job["upload"] = "gone"
        /\ Len(h_out[r]) >= 2
        /\ h_out[r][1].data \in {"snapshot", "terminal snapshot"}
        /\ h_out[r][Len(h_out[r])].data = "Job not found"

\* C32: every path generate_s3_path returns begins with data/, and for
\* 2024-06-15 14:35 and test.mcap it is
\* data/year=2024/month=06/day=15/hour=14/minute=30/test.mcap.
C32_DataPrefix ==
    k_path # <<>> =>
        /\ SubSeq(k_path, 1, 2) = <<"data", "/">>
        /\ (/\ k_in.start_time = [year |-> 2024, month |-> 6, day |-> 15,
                                  hour |-> 14, minute |-> 35]
            /\ k_in.filename = <<"t", "e", "s", "t", ".", "m", "c", "a", "p">>) =>
               k_path = <<"data", "/", "year=", "2", "0", "2", "4", "/",
                          "month=", "0", "6", "/", "day=", "1", "5", "/",
                          "hour=", "1", "4", "/", "minute=", "3", "0", "/",
                          "t", "e", "s", "t", ".", "m", "c", "a", "p">>

\* C33: start_upload assigns a file's status, a file's bytes_uploaded and
\* the job's status only while it holds job.lock.
C33_WritesUnderLock == l_unlocked = {}

\* ---------------------------------------------------------------------------
\* C34.  The pipeline decides every file as analysis followed by start_upload
\* would: for the parse result and duplicate-check outcome a pass of the
\* pipeline's loop sees (no cancellation), the file leaves the pass with the
\* status, bytes_uploaded and error message that _check_duplicate's handler
\* in analyze_job_async and the filter of start_upload give it.
TwoPhase(file, result, outcome, skip) ==
    IF result = "error" THEN Parsed(file, result)
    ELSE IF outcome = "raise" THEN FailFile(Parsed(file, result), "head")
    ELSE Filtered([Parsed(file, result) EXCEPT
                      !.is_duplicate = (outcome = "dup"), !.status = "ready"],
                  skip)

C34_PipelineAgrees ==
    [][\A f \in FileIds, r \in ParseResults, o \in DupOutcomes :
          (PipelineStep(f, r, o) /\ ~cancelled)
          => LET two == TwoPhase(files[f], r, o, skip_duplicates)
             IN /\ files'[f].status = two.status
                /\ files'[f].bytes_uploaded = two.bytes_uploaded
                /\ files'[f].error_message = two.error_message]_vars

\* ---------------------------------------------------------------------------
\* C35.  Whenever the upload job's status is completed, failed or cancelled,
\* every file of the job is completed, skipped, failed or cancelled.
C35_TerminalJobTerminalFiles ==
    job_status \in {"completed", "failed", "cancelled"}
    => \A f \in FileIds :
          files[f].status \in {"completed", "skipped", "failed", "cancelled"}

\* ---------------------------------------------------------------------------
\* C36.  The temporary directory is never removed while a file is being read
\* for upload: a step that removes it is taken only when no upload task is
\* running.
C36_NoCleanupWhileUploading ==
    [][(temp_dir /\ ~temp_dir') => Running = {}]_vars

\* ---------------------------------------------------------------------------
\* C37.  No envelope is lost to a client that is still connected: once it has
\* registered and emitted its snapshot, the envelopes it has delivered
\* followed by those waiting in its queue are exactly the envelopes published
\* on its stream since it registered, in the order of the publish calls.
C37_Received(s) == C4_Delivered(s) \o h_q[s]

C37_NoEventLost ==
    \A s \in Subs :
        h_pc[s] \in {"drain", "sleep"}
        => /\ Len(C37_Received(s)) = h_count[h_stream[s]] - h_reg_at[s]
           /\ \A i \in 1..Len(C37_Received(s)) :
                 C37_Received(s)[i].seq = h_reg_at[s] + i

\* ---------------------------------------------------------------------------
\* C38.  A finished call of pre_filter_files has partitioned its input: every
\* existing path is either marked already uploaded or listed exactly once in
\* the paths to analyse, never both and never twice, and stats to_analyze
\* (the length of the list) is the number of distinct paths in it.
C38_Listed(path) ==
    Cardinality({i \in 1..Len(files_to_analyze) : files_to_analyze[i] = path})

C38_Partition ==
    f_pc = "done"
    => /\ \A j \in 1..Len(file_statuses) :
             C38_Listed(file_statuses[j].path) =
                 IF file_statuses[j].already_uploaded THEN 0 ELSE 1
       /\ Len(files_to_analyze) =
             Cardinality({files_to_analyze[i] : i \in 1..Len(files_to_analyze)})

\* ---------------------------------------------------------------------------
\* C39.  Whenever the delete job's status is completed, failed or cancelled,
\* no file is pending, verifying or deleting, and none is verified but not
\* unlinked: every file is deleted, mismatch, failed or cancelled.
C39_TerminalJobSettledFiles ==
    d_job_status \in DeleteJobTerminal
    => \A f \in DFileIds :
          d_files[f].status \in {"deleted", "mismatch", "failed", "cancelled"}

\* ---------------------------------------------------------------------------
\* POST /api/delete/start/<job_id> once more, after a run of the job has
\* ended: the route looks only for the job, and start_delete_job begins with
\* job.status = "verifying" whatever the status was.
\* The restarted job holds at most this many files.
MaxRestartFiles == 1

RNext ==
    \/ DNext
    \/ \E id \in RequestIds :
          /\ d_job_status \in DeleteJobTerminal
          /\ Len(d_files) <= MaxRestartFiles
          /\ StartDeleteJob(id)

SpecRestart == Init /\ [][RNext]_vars

\* C40.  Delete-job state only moves forward: a file that is deleted,
\* mismatch, failed or cancelled keeps its status, and a job that is
\* completed, failed or cancelled does not become verifying or deleting,
\* also when start is requested again for the job.
C40_ForwardOnly ==
    [][/\ \A f \in DFileIds :
             d_files[f].status \in {"deleted", "mismatch", "failed", "cancelled"}
             => d_files'[f].status = d_files[f].status
       /\ d_job_status \in DeleteJobTerminal
             => d_job_status' \notin {"verifying", "deleting"}]_vars

====
